---- MODULE Spec2Model ----
(***************************************************************************)
(* A model of the chat core of llm-client: ChatApp (chatapp.rs), the      *)
(* streaming client LLMClient::chat_stream (llmclient.rs) and the delta   *)
(* channel between them; of the image tab (generate_sd_image and          *)
(* process_sd_generation in chatapp.rs, SDClient in sdclient.rs); of the   *)
(* endpoint paths (endpoint_type.rs); and of the chat_stream and consumer  *)
(* of the monolithic main.rs.                                              *)
(*                                                                         *)
(* Strings are sequences of lexemes (<<"Hi">>, <<" ", "\n">>), so that     *)
(* push_str is \o, is_empty is = <<>>, and two strings are equal exactly   *)
(* when their sequences are.  Option<T> is a sequence of length 0 (None)   *)
(* or 1 (Some).  The bytes of a response body are modelled as a sequence   *)
(* of wire symbols: the "data: " marker, a newline, the [DONE] payload and *)
(* the two halves of a JSON object, which parses only when both halves     *)
(* are in the text that is handed to the parser.                           *)
(***************************************************************************)
EXTENDS Integers, Sequences, FiniteSets, TLC

\* ---------------------------------------------------------------- bounds
MaxJobs == 2            \* chat jobs started during one run of the session
MaxFrames == 2          \* frames of a wire stream drawn by the decoder runs
MaxMidCuts == 1         \* transport chunk boundaries inside a frame
MaxHist == 2            \* turns of a history argument handed to chat_stream
MaxLag == 6             \* free slots of the channel down to which a lagging run ticks
MaxSdJobs == 2          \* image submissions during one run of the image tab
MaxPolls == 2           \* progress polls answered to one progress task
MaxImages == 2          \* elements of the images array of a txt2img response
MaxEndpointLen == 3     \* pieces of an endpoint string
MaxLiveJobs == 1        \* chat jobs of a session run under its scheduling
MaxRefresh == 2         \* list_models requests issued during one run

\* ------------------------------------------------------- program constants
ChannelCapacity == 16384

\* ---------------------------------------------------------------- strings
Empty == <<>>
None == <<>>
Some(v) == <<v>>
IsSome(o) == o # <<>>
Unwrap(o) == o[1]

RECURSIVE Concat(_)
Concat(ss) == IF ss = <<>> THEN <<>> ELSE Head(ss) \o Concat(Tail(ss))

Whitespace == {" ", "\n", "\t"}
\* str::trim().is_empty(): nothing but whitespace
TrimIsEmpty(s) == \A i \in 1..Len(s) : s[i] \in Whitespace
\* str::contains('\n')
ContainsNewline(s) == \E i \in 1..Len(s) : s[i] = "\n"

Take(s, n) == SubSeq(s, 1, IF n < Len(s) THEN n ELSE Len(s))
SaturatingSub(a, b) == IF a >= b THEN a - b ELSE 0

\* ----------------------------------------------------------- endpoint type
LMStudio == "LMStudio"
Ollama == "Ollama"
EndpointType == {LMStudio, Ollama}

\* ------------------------------------------------------------ wire symbols
DATA == [k |-> "data"]
NL == [k |-> "nl"]
DONEP == [k |-> "done"]
J(h, o) == [k |-> "json", half |-> h, obj |-> o]

\* str::lines(): split on newlines; a final line needs no terminator and an
\* empty tail after the last newline is no line
RECURSIVE LinesFrom(_, _)
LinesFrom(text, cur) ==
    IF text = <<>> THEN (IF cur = <<>> THEN <<>> ELSE <<cur>>)
    ELSE IF Head(text) = NL THEN <<cur>> \o LinesFrom(Tail(text), <<>>)
    ELSE LinesFrom(Tail(text), Append(cur, Head(text)))
Lines(text) == LinesFrom(text, <<>>)

StartsWithData(line) == Len(line) >= 1 /\ line[1] = DATA

RECURSIVE TrimStartNL(_)
TrimStartNL(t) == IF t # <<>> /\ Head(t) = NL THEN TrimStartNL(Tail(t)) ELSE t
RECURSIVE TrimEndNL(_)
TrimEndNL(t) ==
    IF t # <<>> /\ t[Len(t)] = NL THEN TrimEndNL(SubSeq(t, 1, Len(t) - 1)) ELSE t

\* serde_json::from_str: Some(object) when the text is one complete JSON
\* object (surrounding whitespace allowed), None for anything else
ParseJson(text) ==
    LET t == TrimEndNL(TrimStartNL(text))
    IN IF /\ Len(t) = 2
          /\ t[1].k = "json" /\ t[2].k = "json"
          /\ t[1].half = 1 /\ t[2].half = 2
          /\ t[1].obj = t[2].obj
       THEN Some(t[1].obj) ELSE None

\* serde_json::from_str::<ChatResponse>: the object must have `choices`
ParseChatResponse(text) ==
    LET p == ParseJson(text)
    IN IF IsSome(p) /\ "choices" \in DOMAIN Unwrap(p) THEN p ELSE None

\* ------------------------------------------------------------------ frames
\* choices[i] of a compatible-family frame: delta.content and finish_reason
Choice(c, f) == [content |-> c, finish_reason |-> f]
LMObj(choices) == [choices |-> choices]
\* an object of the native family: message.content and done
OllamaObj(c, d) == [content |-> c, done |-> d]

ObjFrame(o) == [k |-> "obj", obj |-> o]
DoneFrame == [k |-> "done"]
BlankFrame == [k |-> "blank"]
BadFrame == [k |-> "bad"]

THINK == <<"<think>">>
ETHINK == <<"</think>">>

LMContents == {None, Some(<<"Hi">>)}
LMFinish == {None, Some(<<"stop">>)}
LMFrames ==
    {ObjFrame(LMObj(<<Choice(c, f)>>)) : c \in LMContents, f \in LMFinish}
        \cup {ObjFrame(LMObj(<<>>)), DoneFrame, BlankFrame, BadFrame}

OllamaContents ==
    {None, Some(THINK), Some(ETHINK), Some(<<"reasoning">>),
     Some(<<" ", "\n", "\n">>), Some(<<" ">>), Some(<<"a", "<think>">>)}
OllamaFrames == {ObjFrame(OllamaObj(c, d)) : c \in OllamaContents, d \in BOOLEAN}

\* the bytes a server writes for one frame
FrameBytes(et, f) ==
    CASE f.k = "blank" -> <<NL>>
      [] f.k = "done" -> <<DATA, DONEP, NL>>
      [] f.k = "bad" -> <<DATA, [k |-> "garbage"], NL>>
      [] OTHER -> IF et = LMStudio
                  THEN <<DATA, J(1, f.obj), J(2, f.obj), NL>>
                  ELSE <<J(1, f.obj), J(2, f.obj), NL>>

RECURSIVE WireBytes(_, _)
WireBytes(et, fs) ==
    IF fs = <<>> THEN <<>> ELSE FrameBytes(et, Head(fs)) \o WireBytes(et, Tail(fs))

\* positions (a cut after byte p) that fall between two frames
RECURSIVE BoundariesFrom(_, _, _)
BoundariesFrom(et, fs, off) ==
    IF Len(fs) <= 1 THEN {}
    ELSE LET n == off + Len(FrameBytes(et, Head(fs)))
         IN {n} \cup BoundariesFrom(et, Tail(fs), n)
Boundaries(et, fs) == BoundariesFrom(et, fs, 0)

\* the transport chunks of `bytes` cut after each position of `cuts`
RECURSIVE ChunksFrom(_, _, _)
ChunksFrom(bytes, cuts, from) ==
    LET later == {c \in cuts : c >= from}
    IN IF later = {} THEN <<SubSeq(bytes, from, Len(bytes))>>
       ELSE LET c == CHOOSE x \in later : \A y \in later : x <= y
            IN <<SubSeq(bytes, from, c)>> \o ChunksFrom(bytes, cuts, c + 1)
ChunksOf(bytes, cuts) == IF bytes = <<>> THEN <<>> ELSE ChunksFrom(bytes, cuts, 1)

\* every way the transport may cut a wire: at any frame boundaries, and at up
\* to MaxMidCuts places inside frames
Chunkings(et, fs) ==
    LET bytes == WireBytes(et, fs)
        bnd == Boundaries(et, fs)
        mid == (1..(Len(bytes) - 1)) \ bnd
    IN {b \cup m : b \in SUBSET bnd,
                   m \in {x \in SUBSET mid : Cardinality(x) <= MaxMidCuts}}

Stream(et, fs, cuts) ==
    [frames |-> fs, cuts |-> cuts, chunks |-> ChunksOf(WireBytes(et, fs), cuts)]

\* one frame per transport chunk
Framed(et, fs) == Stream(et, fs, Boundaries(et, fs))

RECURSIVE SeqsUpTo(_, _)
SeqsUpTo(S, n) ==
    IF n = 0 THEN {<<>>}
    ELSE LET shorter == SeqsUpTo(S, n - 1)
         IN shorter \cup {Append(s, x) : s \in {t \in shorter : Len(t) = n - 1}, x \in S}

\* ------------------------------------------------------------------- state
VARIABLES
    input,              \* ChatApp.input
    chat_history,       \* ChatApp.chat_history: <<role, content>> turns
    pending_response,   \* ChatApp.pending_response: 0 (None) or the job of the Promise
    response_receiver,  \* ChatApp.response_receiver: 0 (None) or the job of the Receiver
    current_response,   \* ChatApp.current_response
    endpoint_type,      \* ChatApp.endpoint_type
    client,             \* ChatApp.client (its endpoint_type)
    threads,            \* the "llm_response" threads, by job
    chan,               \* the sync_channel of each job
    njobs,              \* jobs started so far
    last_op,            \* the ChatApp method the last step ran, "other" for any other step
    sd_prompt,              \* ChatApp.sd_prompt
    sd_generating,          \* ChatApp.sd_generating
    sd_progress,            \* ChatApp.sd_progress, a percentage
    sd_pending_generation,  \* ChatApp.sd_pending_generation: None or Some(Promise)
    sd_error_message,       \* ChatApp.sd_error_message
    sd_image_bytes,         \* ChatApp.sd_image_bytes
    sd_models,              \* ChatApp.sd_models (their names)
    sd_selected_model,      \* ChatApp.sd_selected_model
    sd_selected_lora,       \* ChatApp.sd_selected_lora
    sd_lora_weight,         \* ChatApp.sd_lora_weight, in hundredths
    sd_thread,              \* the "sd_generation" thread of the last submission
    sd_poller,              \* the progress task of the last submission
    sd_progress_slot,       \* the "sd_progress" entry of the egui memory
    sd_checkpoint,          \* the checkpoint the image service has loaded
    sd_njobs,               \* image submissions so far
    ui_panicked,            \* the UI thread has panicked: the process is gone
    sd_tick_pc,             \* the UI thread inside process_sd_generation: "idle"
                            \* between handlers, "check" after its read of the slot
    available_models,       \* ChatApp.available_models
    models_loading,         \* ChatApp.models_loading
    models_slot,            \* the "available_models" entry of the egui memory
    models_requests,        \* the list_models tasks spawned so far, in order of issue
    installed_request       \* the request whose answer available_models holds, 0 for none

\* the image tab shares no field with the chat tab
models_vars == <<available_models, models_loading, models_slot, models_requests,
                installed_request>>
sd_vars == <<sd_prompt, sd_generating, sd_progress, sd_pending_generation,
             sd_error_message, sd_image_bytes, sd_models, sd_selected_model,
             sd_selected_lora, sd_lora_weight, sd_thread, sd_poller,
             sd_progress_slot, sd_checkpoint, sd_njobs, ui_panicked, sd_tick_pc>>
vars == <<input, chat_history, pending_response, response_receiver,
          current_response, endpoint_type, client, threads, chan, njobs, last_op,
          sd_vars, models_vars>>
app_vars == <<input, chat_history, pending_response, response_receiver,
              current_response, endpoint_type, client, njobs>>

\* the model list of a new ChatApp (chatapp.rs 79-80): empty, nothing asked
ModelsInit ==
    /\ available_models = <<>>
    /\ models_loading = FALSE
    /\ models_slot = None
    /\ models_requests = <<>>
    /\ installed_request = 0

Jobs == 1..MaxJobs
Prompts == {<<"p">>, <<"q">>}
\* what the user types into the chat box during a session run
TypedPrompts == {<<"p">>}
DEFAULT_MODEL == "local-model"

Ok == [ok |-> TRUE, e |-> <<>>]
Err(e) == [ok |-> FALSE, e |-> e]

\* a thread that was never spawned
IdleThread ==
    [pc |-> "idle", et |-> Ollama, chat_history |-> <<>>, prompt |-> <<>>,
     model |-> "", request |-> None, chunks |-> <<>>, lines |-> <<>>,
     result |-> None,
     \* the locals `buffer` and `done` of main.rs's chat_stream
     buffer |-> <<>>, done |-> FALSE,
     \* history of the run, read by the properties only
     H |-> <<>>, frames |-> <<>>, cuts |-> {}, seen |-> <<>>, sent |-> <<>>]
NoChannel == [queue |-> <<>>, rx_alive |-> FALSE]
\* a thread that returned and whose Promise is gone: nothing of it is left
Gone == [IdleThread EXCEPT !.pc = "gone"]

Alive(j) == threads[j].pc \notin {"idle", "done", "gone"}
Ready(j) == threads[j].pc = "done"

\* ------------------------------------------------------------ chat_stream
Message(role, content) == [role |-> role, content |-> content]

BuildMessages_KeepLast(history, prompt) ==
    [i \in 1..Len(history) |-> Message(history[i][1], history[i][2])]
        \o <<Message("user", prompt)>>

BuildMessages_DropFirst(history, prompt) ==
    LET kept == Tail(IF history = <<>> THEN <<0>> ELSE history)
    IN [i \in 1..Len(kept) |-> Message(kept[i][1], kept[i][2])]
           \o <<Message("user", prompt)>>

\* all turns of the history argument except the last one, then the prompt
BuildMessages(history, prompt) ==
    LET kept == Take(history, SaturatingSub(Len(history), 1))
    IN [i \in 1..Len(kept) |-> Message(kept[i][1], kept[i][2])]
           \o <<Message("user", prompt)>>

RequestBody(et, model, messages) ==
    IF et = LMStudio
    THEN [model |-> model, messages |-> messages, temperature |-> "0.7",
          stream |-> TRUE]
    ELSE [model |-> model, messages |-> messages, stream |-> TRUE]

\* what one line of a compatible-family chunk decodes to: the delta to push
\* (if any) and whether the line ends the stream
Continue == [emit |-> None, stop |-> FALSE]

LMLine_FinishIgnored(line) ==
    IF line = <<>> \/ line = <<DATA, DONEP>> \/ ~StartsWithData(line) THEN Continue
    ELSE LET r == ParseChatResponse(Tail(line))
         IN IF IsSome(r) /\ Unwrap(r).choices # <<>>
            THEN [emit |-> Unwrap(r).choices[1].content, stop |-> FALSE]
            ELSE Continue

LMLine_ParseErrorStops(line) ==
    IF line = <<>> \/ line = <<DATA, DONEP>> \/ ~StartsWithData(line) THEN Continue
    ELSE LET r == ParseChatResponse(Tail(line))
         IN IF IsSome(r)
            THEN IF Unwrap(r).choices # <<>>
                 THEN [emit |-> Unwrap(r).choices[1].content,
                       stop |-> IsSome(Unwrap(r).choices[1].finish_reason)]
                 ELSE Continue
            ELSE [emit |-> None, stop |-> TRUE]

LMLine(line) ==
    IF line = <<>> \/ line = <<DATA, DONEP>> THEN Continue
    ELSE IF ~StartsWithData(line) THEN Continue
    ELSE LET r == ParseChatResponse(Tail(line))
         IN IF IsSome(r)
            THEN IF Unwrap(r).choices # <<>>
                 THEN [emit |-> Unwrap(r).choices[1].content,
                       stop |-> IsSome(Unwrap(r).choices[1].finish_reason)]
                 ELSE Continue
            ELSE Continue   \* eprintln!("Failed to parse response")

\* what one native-family chunk decodes to
OllamaContent(o) == IF "content" \in DOMAIN o THEN o.content ELSE None
OllamaDone(o) == IF "done" \in DOMAIN o THEN o.done ELSE FALSE

OllamaChunk_SubstringFilter(text) ==
    LET r == ParseJson(text)
    IN IF ~IsSome(r) THEN Continue
       ELSE LET c == OllamaContent(Unwrap(r))
            IN [emit |->
                  IF IsSome(c) /\ ~\E i \in 1..Len(Unwrap(c)) :
                                      Unwrap(c)[i] \in {"<think>", "</think>"}
                  THEN IF TrimIsEmpty(Unwrap(c)) /\ ContainsNewline(Unwrap(c))
                       THEN Some(<<"\n">>) ELSE c
                  ELSE None,
                stop |-> OllamaDone(Unwrap(r))]

OllamaChunk_DoneIgnored(text) ==
    LET r == ParseJson(text)
    IN IF ~IsSome(r) THEN Continue
       ELSE LET c == OllamaContent(Unwrap(r))
            IN [emit |->
                  IF IsSome(c) /\ Unwrap(c) # THINK /\ Unwrap(c) # ETHINK
                  THEN IF TrimIsEmpty(Unwrap(c)) /\ ContainsNewline(Unwrap(c))
                       THEN Some(<<"\n">>) ELSE c
                  ELSE None,
                stop |-> FALSE]

OllamaChunk(text) ==
    LET r == ParseJson(text)
    IN IF ~IsSome(r) THEN Continue
       ELSE LET c == OllamaContent(Unwrap(r))
            IN [emit |->
                  IF IsSome(c) /\ Unwrap(c) # THINK /\ Unwrap(c) # ETHINK
                  THEN IF TrimIsEmpty(Unwrap(c)) /\ ContainsNewline(Unwrap(c))
                       THEN Some(<<"\n">>) ELSE c
                  ELSE None,
                stop |-> OllamaDone(Unwrap(r))]

\* ------------------------------------------------------ the producer thread
\* dropping a Receiver: the channel's next send fails
DropReceiver(ch, r) == IF r = 0 THEN ch ELSE [ch EXCEPT ![r] = NoChannel]

\* dropping a Promise: the result of a thread that returned goes with it, a
\* thread that is still running runs on
DropPromise(ts, j) ==
    IF j # 0 /\ ts[j].pc = "done" THEN [ts EXCEPT ![j] = Gone] ELSE ts

\* thread `th` of job j returns `res`: the Promise, if it is still held, gets it
Exit(j, th, res) ==
    IF pending_response = j
    THEN [th EXCEPT !.pc = "done", !.result = Some(res), !.chunks = <<>>,
                    !.lines = <<>>]
    ELSE Gone

Deliver_FailedSendIgnored(j, th, d, next_pc) ==
    LET pushes == IsSome(d.emit) /\ chan[j].rx_alive
        fails == IsSome(d.emit) /\ ~chan[j].rx_alive
        returns == d.stop
    IN /\ pushes => Len(chan[j].queue) < ChannelCapacity
       /\ chan' = IF pushes THEN [chan EXCEPT ![j].queue = Append(@, Unwrap(d.emit))]
                  ELSE chan
       /\ LET th2 == [th EXCEPT !.sent = IF pushes THEN Append(@, Unwrap(d.emit))
                                         ELSE @,
                                 !.pc = next_pc]
          IN threads' = [threads EXCEPT ![j] =
                            IF returns THEN Exit(j, th2, Ok) ELSE th2]

\* the end of one decode iteration of job j, `th` being its thread after the
\* iteration read its input and `d` what the input decoded to: tx.send the
\* delta if there is one, return Ok(()) when the send fails or the input was
\* terminal, go on at `next_pc` otherwise
Deliver(j, th, d, next_pc) ==
    LET pushes == IsSome(d.emit) /\ chan[j].rx_alive
        fails == IsSome(d.emit) /\ ~chan[j].rx_alive
        returns == fails \/ d.stop
    IN /\ pushes => Len(chan[j].queue) < ChannelCapacity
       /\ chan' = IF pushes THEN [chan EXCEPT ![j].queue = Append(@, Unwrap(d.emit))]
                  ELSE chan
       /\ LET th2 == [th EXCEPT !.sent = IF pushes THEN Append(@, Unwrap(d.emit))
                                         ELSE @,
                                 !.pc = next_pc]
          IN threads' = [threads EXCEPT ![j] =
                            IF returns THEN Exit(j, th2, Ok) ELSE th2]

Return(j, res) == threads' = [threads EXCEPT ![j] = Exit(j, threads[j], res)]

\* chat_stream up to the POST: the message array and the request body
PostRequest(j) ==
    /\ threads[j].pc = "start"
    /\ LET th == threads[j]
           messages == BuildMessages(th.chat_history, th.prompt)
       IN threads' = [threads EXCEPT
              ![j].request = Some(RequestBody(th.et, th.model, messages)),
              ![j].pc = "await_response"]
    /\ last_op' = "other"
    /\ UNCHANGED <<sd_vars, models_vars>>
    /\ UNCHANGED <<app_vars, chan>>

\* .send().await fails: "Failed to send request"
SendFails(j) ==
    /\ threads[j].pc = "await_response"
    /\ Return(j, Err(<<"Failed to send request">>))
    /\ last_op' = "other"
    /\ UNCHANGED <<sd_vars, models_vars>>
    /\ UNCHANGED <<app_vars, chan>>

\* a non-2xx status: "Request failed with status"
ResponseError(j) ==
    /\ threads[j].pc = "await_response"
    /\ Return(j, Err(<<"Request failed with status">>))
    /\ last_op' = "other"
    /\ UNCHANGED <<sd_vars, models_vars>>
    /\ UNCHANGED <<app_vars, chan>>

\* the streams the servers of the session runs answer with: one that ends
\* with a terminal frame and one that just ends
AppStreams(et) ==
    IF et = LMStudio
    THEN {Framed(et, <<ObjFrame(LMObj(<<Choice(Some(<<"Hi">>), None)>>)),
                       ObjFrame(LMObj(<<Choice(Some(<<"!">>), Some(<<"stop">>))>>)),
                       DoneFrame>>),
          Framed(et, <<ObjFrame(LMObj(<<Choice(Some(<<"Hi">>), None)>>)),
                       ObjFrame(LMObj(<<Choice(Some(<<"!">>), None)>>))>>)}
    ELSE {Framed(et, <<ObjFrame(OllamaObj(Some(<<"Hi">>), FALSE)),
                       ObjFrame(OllamaObj(Some(<<"!">>), TRUE))>>),
          Framed(et, <<ObjFrame(OllamaObj(Some(<<"Hi">>), FALSE)),
                       ObjFrame(OllamaObj(Some(<<"!">>), FALSE))>>)}

\* a 2xx status: response.bytes_stream()
ResponseOk(j) ==
    /\ threads[j].pc = "await_response"
    /\ \E s \in AppStreams(threads[j].et) :
          threads' = [threads EXCEPT ![j].pc = "read", ![j].chunks = s.chunks,
                                     ![j].frames = s.frames, ![j].cuts = s.cuts]
    /\ last_op' = "other"
    /\ UNCHANGED <<sd_vars, models_vars>>
    /\ UNCHANGED <<app_vars, chan>>

\* stream.next() yields a chunk
ReadChunk(j) ==
    /\ threads[j].pc = "read"
    /\ threads[j].chunks # <<>>
    /\ LET text == Head(threads[j].chunks)
           th == [threads[j] EXCEPT !.chunks = Tail(@)]
       IN IF th.et = LMStudio
          THEN /\ threads' = [threads EXCEPT ![j] =
                      [th EXCEPT !.lines = Lines(text),
                                 !.pc = IF Lines(text) = <<>> THEN "read" ELSE "lines"]]
               /\ chan' = chan
          ELSE Deliver(j, [th EXCEPT !.seen = Append(@, text)], OllamaChunk(text), "read")
    /\ last_op' = "other"
    /\ UNCHANGED <<sd_vars, models_vars>>
    /\ UNCHANGED app_vars

\* one iteration of `for line in text.lines()`
ProcessLine(j) ==
    /\ threads[j].pc = "lines"
    /\ LET line == Head(threads[j].lines)
           rest == Tail(threads[j].lines)
           th == [threads[j] EXCEPT !.lines = rest, !.seen = Append(@, line)]
       IN Deliver(j, th, LMLine(line), IF rest = <<>> THEN "read" ELSE "lines")
    /\ last_op' = "other"
    /\ UNCHANGED <<sd_vars, models_vars>>
    /\ UNCHANGED app_vars

\* stream.next() yields an error: "Error reading stream"
ReadError(j) ==
    /\ threads[j].pc = "read"
    /\ Return(j, Err(<<"Error reading stream">>))
    /\ last_op' = "other"
    /\ UNCHANGED <<sd_vars, models_vars>>
    /\ UNCHANGED <<app_vars, chan>>

\* stream.next() yields None: the loop ends and chat_stream returns Ok(())
StreamEnd(j) ==
    /\ threads[j].pc = "read"
    /\ threads[j].chunks = <<>>
    /\ Return(j, Ok)
    /\ last_op' = "other"
    /\ UNCHANGED <<sd_vars, models_vars>>
    /\ UNCHANGED <<app_vars, chan>>

\* ------------------------------------------------------------------ ChatApp
\* the text box of the chat tab
EditInput(s) ==
    /\ s # input
    /\ input' = s
    /\ last_op' = "other"
    /\ UNCHANGED <<sd_vars, models_vars>>
    /\ UNCHANGED <<chat_history, pending_response, response_receiver,
                   current_response, endpoint_type, client, threads, chan, njobs>>

SendMessage_NoPendingCheck ==
    /\ last_op' = "send_message"
    /\ UNCHANGED <<sd_vars, models_vars>>
    /\ IF input = Empty
       THEN UNCHANGED <<app_vars, threads, chan>>
       ELSE /\ njobs < MaxJobs
            /\ LET j == njobs + 1
                   prompt == input
                   history == Append(chat_history, <<"user", prompt>>)
               IN /\ input' = Empty
                  /\ chat_history' = history
                  /\ chan' = [DropReceiver(chan, response_receiver) EXCEPT
                                 ![j] = [queue |-> <<>>, rx_alive |-> TRUE]]
                  /\ response_receiver' = j
                  /\ pending_response' = j
                  /\ threads' = [DropPromise(threads, pending_response) EXCEPT ![j] =
                         [IdleThread EXCEPT !.pc = "start",
                                            !.et = client.endpoint_type,
                                            !.chat_history = history,
                                            !.prompt = prompt,
                                            !.model = DEFAULT_MODEL,
                                            !.H = chat_history]]
                  /\ njobs' = j
            /\ UNCHANGED <<current_response, endpoint_type, client>>

SendMessage ==
    /\ last_op' = "send_message"
    /\ UNCHANGED <<sd_vars, models_vars>>
    /\ IF input = Empty \/ pending_response # 0
       THEN UNCHANGED <<app_vars, threads, chan>>
       ELSE /\ njobs < MaxJobs
            /\ LET j == njobs + 1
                   prompt == input     \* std::mem::take(&mut self.input)
                   history == Append(chat_history, <<"user", prompt>>)
               IN /\ input' = Empty
                  /\ chat_history' = history
                  /\ chan' = [DropReceiver(chan, response_receiver) EXCEPT
                                 ![j] = [queue |-> <<>>, rx_alive |-> TRUE]]
                  /\ response_receiver' = j
                  /\ pending_response' = j
                  /\ threads' = [DropPromise(threads, pending_response) EXCEPT ![j] =
                         [IdleThread EXCEPT !.pc = "start",
                                            !.et = client.endpoint_type,
                                            !.chat_history = history,
                                            !.prompt = prompt,
                                            !.model = DEFAULT_MODEL,
                                            !.H = chat_history]]
                  /\ njobs' = j
            /\ UNCHANGED <<current_response, endpoint_type, client>>

ClearChat_KeepReceiver ==
    /\ chat_history' = <<>>
    /\ current_response' = Empty
    /\ input' = Empty
    /\ pending_response' = 0
    /\ last_op' = "clear_chat"
    /\ UNCHANGED <<sd_vars, models_vars>>
    /\ threads' = DropPromise(threads, pending_response)
    /\ UNCHANGED <<response_receiver, chan, endpoint_type, client, njobs>>

ClearChat_KeepsCurrentResponse ==
    /\ chat_history' = <<>>
    /\ input' = Empty
    /\ pending_response' = 0
    /\ response_receiver' = 0
    /\ last_op' = "clear_chat"
    /\ UNCHANGED <<sd_vars, models_vars>>
    /\ chan' = DropReceiver(chan, response_receiver)
    /\ threads' = DropPromise(threads, pending_response)
    /\ UNCHANGED <<current_response, endpoint_type, client, njobs>>

\* the Promise and the Receiver are dropped; the thread is not stopped
ClearChat ==
    /\ chat_history' = <<>>
    /\ current_response' = Empty
    /\ input' = Empty
    /\ pending_response' = 0
    /\ response_receiver' = 0
    /\ last_op' = "clear_chat"
    /\ UNCHANGED <<sd_vars, models_vars>>
    /\ chan' = DropReceiver(chan, response_receiver)
    /\ threads' = DropPromise(threads, pending_response)
    /\ UNCHANGED <<endpoint_type, client, njobs>>

UpdateEndpointType(new) ==
    /\ new # endpoint_type
    /\ endpoint_type' = new
    /\ available_models' = <<>>
    /\ installed_request' = 0
    /\ last_op' = "other"
    /\ UNCHANGED <<models_loading, models_slot, models_requests>>
    /\ UNCHANGED sd_vars
    /\ UNCHANGED <<input, chat_history, pending_response, response_receiver,
                   current_response, client, threads, chan, njobs>>

UpdateClientUrl ==
    /\ client' = [endpoint_type |-> endpoint_type]
    /\ client' # client
    /\ last_op' = "other"
    /\ UNCHANGED <<sd_vars, models_vars>>
    /\ UNCHANGED <<input, chat_history, pending_response, response_receiver,
                   current_response, endpoint_type, threads, chan, njobs>>

ProcessResponseChunks_ErrorFirst ==
    LET got == response_receiver # 0 /\ chan[response_receiver].queue # <<>>
        cur == IF got THEN current_response \o Head(chan[response_receiver].queue)
               ELSE current_response
        ready == pending_response # 0 /\ Ready(pending_response)
        result == Unwrap(threads[pending_response].result)
        ch == IF got THEN [chan EXCEPT ![response_receiver].queue = Tail(@)] ELSE chan
    IN /\ IF ready
          THEN /\ chat_history' =
                      IF ~result.ok
                      THEN Append(chat_history, <<"error", <<"Error: ">> \o result.e>>)
                      ELSE IF cur # Empty
                      THEN Append(chat_history, <<"assistant", cur>>)
                      ELSE chat_history
               /\ current_response' = Empty
               /\ pending_response' = 0
               /\ response_receiver' = 0
               /\ chan' = DropReceiver(ch, response_receiver)
               /\ threads' = DropPromise(threads, pending_response)
          ELSE /\ current_response' = cur
               /\ chan' = ch
               /\ UNCHANGED <<chat_history, pending_response, response_receiver,
                              threads>>
       /\ last_op' = "process_response_chunks"
       /\ UNCHANGED <<sd_vars, models_vars>>
       /\ UNCHANGED <<input, endpoint_type, client, njobs>>

ProcessResponseChunks_Prepends ==
    LET got == response_receiver # 0 /\ chan[response_receiver].queue # <<>>
        cur == IF got THEN Head(chan[response_receiver].queue) \o current_response
               ELSE current_response
        ready == pending_response # 0 /\ Ready(pending_response)
        result == Unwrap(threads[pending_response].result)
        ch == IF got THEN [chan EXCEPT ![response_receiver].queue = Tail(@)] ELSE chan
    IN /\ IF ready
          THEN /\ chat_history' =
                      IF cur # Empty THEN Append(chat_history, <<"assistant", cur>>)
                      ELSE IF ~result.ok
                      THEN Append(chat_history, <<"error", <<"Error: ">> \o result.e>>)
                      ELSE chat_history
               /\ current_response' = Empty
               /\ pending_response' = 0
               /\ response_receiver' = 0
               /\ chan' = DropReceiver(ch, response_receiver)
               /\ threads' = DropPromise(threads, pending_response)
          ELSE /\ current_response' = cur
               /\ chan' = ch
               /\ UNCHANGED <<chat_history, pending_response, response_receiver,
                              threads>>
       /\ last_op' = "process_response_chunks"
       /\ UNCHANGED <<sd_vars, models_vars>>
       /\ UNCHANGED <<input, endpoint_type, client, njobs>>

ProcessResponseChunks_DrainsAll ==
    LET got == response_receiver # 0 /\ chan[response_receiver].queue # <<>>
        cur == IF got THEN current_response \o Concat(chan[response_receiver].queue)
               ELSE current_response
        ready == pending_response # 0 /\ Ready(pending_response)
        result == Unwrap(threads[pending_response].result)
        ch == IF got THEN [chan EXCEPT ![response_receiver].queue = <<>>] ELSE chan
    IN /\ IF ready
          THEN /\ chat_history' =
                      IF cur # Empty THEN Append(chat_history, <<"assistant", cur>>)
                      ELSE IF ~result.ok
                      THEN Append(chat_history, <<"error", <<"Error: ">> \o result.e>>)
                      ELSE chat_history
               /\ current_response' = Empty
               /\ pending_response' = 0
               /\ response_receiver' = 0
               /\ chan' = DropReceiver(ch, response_receiver)
               /\ threads' = DropPromise(threads, pending_response)
          ELSE /\ current_response' = cur
               /\ chan' = ch
               /\ UNCHANGED <<chat_history, pending_response, response_receiver,
                              threads>>
       /\ last_op' = "process_response_chunks"
       /\ UNCHANGED <<sd_vars, models_vars>>
       /\ UNCHANGED <<input, endpoint_type, client, njobs>>

ProcessResponseChunks_ErrorDropped ==
    LET got == response_receiver # 0 /\ chan[response_receiver].queue # <<>>
        cur == IF got THEN current_response \o Head(chan[response_receiver].queue)
               ELSE current_response
        ready == pending_response # 0 /\ Ready(pending_response)
        result == Unwrap(threads[pending_response].result)
        ch == IF got THEN [chan EXCEPT ![response_receiver].queue = Tail(@)] ELSE chan
    IN /\ IF ready
          THEN /\ chat_history' =
                      IF cur # Empty THEN Append(chat_history, <<"assistant", cur>>)
                      ELSE chat_history
               /\ current_response' = Empty
               /\ pending_response' = 0
               /\ response_receiver' = 0
               /\ chan' = DropReceiver(ch, response_receiver)
               /\ threads' = DropPromise(threads, pending_response)
          ELSE /\ current_response' = cur
               /\ chan' = ch
               /\ UNCHANGED <<chat_history, pending_response, response_receiver,
                              threads>>
       /\ last_op' = "process_response_chunks"
       /\ UNCHANGED <<sd_vars, models_vars>>
       /\ UNCHANGED <<input, endpoint_type, client, njobs>>

ProcessResponseChunks_OverwritesLast ==
    LET got == response_receiver # 0 /\ chan[response_receiver].queue # <<>>
        cur == IF got THEN current_response \o Head(chan[response_receiver].queue)
               ELSE current_response
        ready == pending_response # 0 /\ Ready(pending_response)
        result == Unwrap(threads[pending_response].result)
        ch == IF got THEN [chan EXCEPT ![response_receiver].queue = Tail(@)] ELSE chan
    IN /\ IF ready
          THEN /\ chat_history' =
                      IF cur # Empty
                      THEN [chat_history EXCEPT ![Len(chat_history)] = <<"assistant", cur>>]
                      ELSE IF ~result.ok
                      THEN Append(chat_history, <<"error", <<"Error: ">> \o result.e>>)
                      ELSE chat_history
               /\ current_response' = Empty
               /\ pending_response' = 0
               /\ response_receiver' = 0
               /\ chan' = DropReceiver(ch, response_receiver)
               /\ threads' = DropPromise(threads, pending_response)
          ELSE /\ current_response' = cur
               /\ chan' = ch
               /\ UNCHANGED <<chat_history, pending_response, response_receiver,
                              threads>>
       /\ last_op' = "process_response_chunks"
       /\ UNCHANGED <<sd_vars, models_vars>>
       /\ UNCHANGED <<input, endpoint_type, client, njobs>>

\* process_response_chunks, once per frame: at most one try_recv, then the
\* check of the Promise
ProcessResponseChunks_KeepsFailedJob ==
    LET got == response_receiver # 0 /\ chan[response_receiver].queue # <<>>
        cur == IF got THEN current_response \o Head(chan[response_receiver].queue)
               ELSE current_response
        ready == /\ pending_response # 0 /\ Ready(pending_response)
                 /\ Unwrap(threads[pending_response].result).ok
        ch == IF got THEN [chan EXCEPT ![response_receiver].queue = Tail(@)] ELSE chan
    IN /\ IF ready
          THEN /\ chat_history' =
                      IF cur # Empty THEN Append(chat_history, <<"assistant", cur>>)
                      ELSE chat_history
               /\ current_response' = Empty
               /\ pending_response' = 0
               /\ response_receiver' = 0
               /\ chan' = DropReceiver(ch, response_receiver)
               /\ threads' = DropPromise(threads, pending_response)
          ELSE /\ current_response' = cur
               /\ chan' = ch
               /\ UNCHANGED <<chat_history, pending_response, response_receiver,
                              threads>>
       /\ last_op' = "process_response_chunks"
       /\ UNCHANGED <<sd_vars, models_vars>>
       /\ UNCHANGED <<input, endpoint_type, client, njobs>>

ProcessResponseChunks_KeepsReceiver ==
    LET got == response_receiver # 0 /\ chan[response_receiver].queue # <<>>
        cur == IF got THEN current_response \o Head(chan[response_receiver].queue)
               ELSE current_response
        ready == pending_response # 0 /\ Ready(pending_response)
        result == Unwrap(threads[pending_response].result)
        ch == IF got THEN [chan EXCEPT ![response_receiver].queue = Tail(@)] ELSE chan
    IN /\ IF ready
          THEN /\ chat_history' =
                      IF cur # Empty THEN Append(chat_history, <<"assistant", cur>>)
                      ELSE IF ~result.ok
                      THEN Append(chat_history, <<"error", <<"Error: ">> \o result.e>>)
                      ELSE chat_history
               /\ current_response' = Empty
               /\ pending_response' = 0
               /\ chan' = ch
               /\ threads' = DropPromise(threads, pending_response)
               /\ UNCHANGED response_receiver
          ELSE /\ current_response' = cur
               /\ chan' = ch
               /\ UNCHANGED <<chat_history, pending_response, response_receiver,
                              threads>>
       /\ last_op' = "process_response_chunks"
       /\ UNCHANGED <<sd_vars, models_vars>>
       /\ UNCHANGED <<input, endpoint_type, client, njobs>>

ProcessResponseChunks ==
    LET got == response_receiver # 0 /\ chan[response_receiver].queue # <<>>
        cur == IF got THEN current_response \o Head(chan[response_receiver].queue)
               ELSE current_response
        ready == pending_response # 0 /\ Ready(pending_response)
        result == Unwrap(threads[pending_response].result)
        ch == IF got THEN [chan EXCEPT ![response_receiver].queue = Tail(@)] ELSE chan
    IN /\ IF ready
          THEN /\ chat_history' =
                      IF cur # Empty THEN Append(chat_history, <<"assistant", cur>>)
                      ELSE IF ~result.ok
                      THEN Append(chat_history, <<"error", <<"Error: ">> \o result.e>>)
                      ELSE chat_history
               /\ current_response' = Empty
               /\ pending_response' = 0
               /\ response_receiver' = 0
               /\ chan' = DropReceiver(ch, response_receiver)
               /\ threads' = DropPromise(threads, pending_response)
          ELSE /\ current_response' = cur
               /\ chan' = ch
               /\ UNCHANGED <<chat_history, pending_response, response_receiver,
                              threads>>
       /\ last_op' = "process_response_chunks"
       /\ UNCHANGED <<sd_vars, models_vars>>
       /\ UNCHANGED <<input, endpoint_type, client, njobs>>

\* ---------------------------------------------------------- the image tab
chat_vars_only == <<input, chat_history, pending_response, response_receiver,
                    current_response, endpoint_type, client, threads, chan, njobs>>
chat_vars == <<chat_vars_only, models_vars>>

SdModelNames == {"m1", "m2"}
SdPrompts == {"", "cat"}
SdLoraNames == {"detail"}
\* sd_lora_weight in hundredths: 0.7 (ChatApp::new), 0.75 and 1.0
SdLoraWeights == {70, 75, 100}
\* ChatApp.sd_steps; no widget of chatapp_ui.rs changes it
DefaultSdSteps == 20
\* the percentages a progress poll can produce
SdProgressValues == {50, 100}

\* ---- base64::engine::general_purpose::STANDARD, on strings of characters
\* three symbols of the standard alphabet, the padding "=" and "*", which is
\* not in the alphabet
B64Alphabet == {"A", "B", "/"}
B64Value(c) == CASE c = "A" -> 0 [] c = "B" -> 1 [] c = "/" -> 63

DecodeError == [ok |-> FALSE, bytes |-> <<>>]

\* decode: groups of four symbols give three bytes; padding is required, only
\* at the end, and the bits it leaves unused must be zero
RECURSIVE Base64Decode(_)
Base64Decode(s) ==
    IF s = <<>> THEN [ok |-> TRUE, bytes |-> <<>>]
    ELSE IF Len(s) < 4 THEN DecodeError
    ELSE LET q == SubSeq(s, 1, 4)
             rest == SubSeq(s, 5, Len(s))
             pad == IF q[4] # "=" THEN 0 ELSE IF q[3] # "=" THEN 1 ELSE 2
             v(i) == IF i <= 4 - pad THEN B64Value(q[i]) ELSE 0
             n == v(1) * 262144 + v(2) * 4096 + v(3) * 64 + v(4)
             bytes == <<n \div 65536, (n \div 256) % 256, n % 256>>
             tail == Base64Decode(rest)
         IN IF \E i \in 1..(4 - pad) : q[i] \notin B64Alphabet THEN DecodeError
            ELSE IF pad > 0 /\ rest # <<>> THEN DecodeError
            ELSE IF pad = 1 /\ n % 256 # 0 THEN DecodeError
            ELSE IF pad = 2 /\ n % 65536 # 0 THEN DecodeError
            ELSE IF ~tail.ok THEN DecodeError
            ELSE [ok |-> TRUE, bytes |-> SubSeq(bytes, 1, 3 - pad) \o tail.bytes]

\* image::load_from_memory recognises a file by its leading signature; in
\* the model a leading zero byte stands for a known signature
IsImage(bytes) == bytes # <<>> /\ bytes[1] = 0

\* ---- SDClient::generate_image
\* TextToImageRequest: the prompt, the steps and the hires.fix fields
TextToImageRequest(prompt, steps) ==
    [prompt |-> prompt, steps |-> steps, enable_hr |-> None, hr_scale |-> None,
     hr_upscaler |-> None, hr_second_pass_steps |-> None,
     denoising_strength |-> None]

\* the hires.fix assignments at the head of generate_image; hr_scale in
\* tenths, denoising_strength in hundredths
SetHiresDefaults(request) ==
    [request EXCEPT
        !.enable_hr = Some(TRUE),
        !.hr_scale = Some(20),
        !.hr_upscaler = Some("Latent"),
        !.hr_second_pass_steps = Some(request.steps \div 2),
        !.denoising_strength = Some(55)]

\* a response to the txt2img POST: its status, the fields its JSON body has
\* and the value of "images"
SdResponse(status, fields, images) ==
    [status |-> status, fields |-> fields, images |-> images]
TextToImageResponseFields == {"images", "parameters", "info"}

SdOk(bytes) == [ok |-> TRUE, e |-> <<>>, image |-> bytes]
SdErr(e) == [ok |-> FALSE, e |-> e, image |-> <<>>]

\* generate_image from the response on: status, body, images[0]
GenerateImageResult_DecodesLast(resp) ==
    IF resp.status \notin 200..299
    THEN SdErr(<<"Stable Diffusion API returned error">>)
    ELSE IF ~(TextToImageResponseFields \subseteq resp.fields)
    THEN SdErr(<<"Failed to parse image response">>)
    ELSE IF resp.images = <<>>
    THEN SdErr(<<"No images returned from the server">>)
    ELSE LET d == Base64Decode(resp.images[Len(resp.images)])
         IN IF d.ok THEN SdOk(d.bytes)
            ELSE SdErr(<<"Failed to decode base64 image">>)

GenerateImageResult(resp) ==
    IF resp.status \notin 200..299
    THEN SdErr(<<"Stable Diffusion API returned error">>)
    ELSE IF ~(TextToImageResponseFields \subseteq resp.fields)
    THEN SdErr(<<"Failed to parse image response">>)
    ELSE IF resp.images = <<>>
    THEN SdErr(<<"No images returned from the server">>)
    ELSE LET d == Base64Decode(resp.images[1])
         IN IF d.ok THEN SdOk(d.bytes)
            ELSE SdErr(<<"Failed to decode base64 image">>)

\* ---- ChatApp, the image tab
Digit(d) ==
    CASE d = 0 -> "0" [] d = 1 -> "1" [] d = 2 -> "2" [] d = 3 -> "3" [] d = 4 -> "4"
      [] d = 5 -> "5" [] d = 6 -> "6" [] d = 7 -> "7" [] d = 8 -> "8" [] d = 9 -> "9"
\* format!("{:.1}", weight) for a weight given in hundredths: the nearest
\* tenth, a tie going to the even digit
FormatOneDecimal(w) ==
    LET t == w \div 10
        r == w % 10
        tenths == IF r > 5 \/ (r = 5 /\ t % 2 = 1) THEN t + 1 ELSE t
    IN <<Digit(tenths \div 10), ".", Digit(tenths % 10)>>

\* " <lora:{}:{:.1}>", as the pieces the format! joins
LoraTag(name, weight) ==
    <<" ", "<lora:", name, ":">> \o FormatOneDecimal(weight) \o <<">">>

\* the prompt generate_sd_image puts into the request
SubmittedPrompt_TagTwice(prompt, lora, weight) ==
    IF IsSome(lora)
    THEN <<prompt>> \o LoraTag(Unwrap(lora), weight) \o LoraTag(Unwrap(lora), weight)
    ELSE <<prompt>>

SubmittedPrompt(prompt, lora, weight) ==
    IF IsSome(lora)
    THEN <<prompt>> \o LoraTag(Unwrap(lora), weight)
    ELSE <<prompt>>

\* the "sd_generation" thread before any submission; `log` is the HTTP
\* traffic of the submission, `response` the answer to its txt2img POST and
\* `current_at_post` the service's checkpoint when the model-change call was
\* sent: read by the properties only
SdIdleThread ==
    [pc |-> "idle", model_name |-> "", request |-> None, posted |-> None,
     image_data_result |-> None, result |-> None,
     log |-> <<>>, response |-> None, current_at_post |-> None]

\* the task tokio::spawn starts in the closure; `polls` is what its polls
\* returned so far, read by the properties only
SdNoPoller == [pc |-> "none", polls |-> <<>>]

\* ChatApp::new, and the service with some checkpoint loaded
SdInit ==
    /\ sd_prompt = ""
    /\ sd_generating = FALSE
    /\ sd_progress = 0
    /\ sd_pending_generation = None
    /\ sd_error_message = None
    /\ sd_image_bytes = None
    /\ sd_models = <<>>
    /\ sd_selected_model = ""
    /\ sd_selected_lora = None
    /\ sd_lora_weight = 70
    /\ sd_thread = SdIdleThread
    /\ sd_poller = SdNoPoller
    /\ sd_progress_slot = None
    /\ sd_checkpoint = "m1"
    /\ sd_njobs = 0
    /\ ui_panicked = FALSE
    /\ sd_tick_pc = "idle"

sd_settings == <<sd_models, sd_selected_model, sd_selected_lora, sd_lora_weight>>
sd_job == <<sd_generating, sd_progress, sd_pending_generation, sd_error_message,
            sd_image_bytes, sd_njobs, ui_panicked>>
sd_background == <<sd_thread, sd_poller, sd_progress_slot, sd_checkpoint>>

\* the text box of the image tab
EditSdPrompt(s) ==
    /\ ~ui_panicked
    /\ s # sd_prompt
    /\ sd_prompt' = s
    /\ last_op' = "other"
    /\ UNCHANGED <<chat_vars, sd_tick_pc, sd_settings, sd_job, sd_background>>

\* load_sd_options, the arrival of the model list: an empty selection becomes
\* the first model
LoadSdModels(models) ==
    /\ ~ui_panicked
    /\ sd_models = <<>>
    /\ sd_models' = models
    /\ sd_selected_model' =
          IF models # <<>> /\ sd_selected_model = "" THEN models[1]
          ELSE sd_selected_model
    /\ last_op' = "other"
    /\ UNCHANGED <<chat_vars, sd_tick_pc, sd_prompt, sd_selected_lora, sd_lora_weight,
                   sd_job, sd_background>>

\* an assignment to the public fields sd_selected_lora and sd_lora_weight
SelectLora(lora, weight) ==
    /\ ~ui_panicked
    /\ <<lora, weight>> # <<sd_selected_lora, sd_lora_weight>>
    /\ sd_selected_lora' = lora
    /\ sd_lora_weight' = weight
    /\ last_op' = "other"
    /\ UNCHANGED <<chat_vars, sd_tick_pc, sd_prompt, sd_models, sd_selected_model,
                   sd_job, sd_background>>

\* generate_sd_image: the state it sets and the thread it spawns
GenerateSdImage ==
    /\ sd_generating' = TRUE
    /\ sd_progress' = 0
    /\ sd_error_message' = None
    /\ sd_pending_generation' = Some(sd_njobs + 1)
    /\ sd_thread' =
          [SdIdleThread EXCEPT
              !.pc = "start",
              !.model_name = sd_selected_model,
              !.request = Some(TextToImageRequest(
                              SubmittedPrompt(sd_prompt, sd_selected_lora,
                                              sd_lora_weight),
                              DefaultSdSteps))]
    /\ sd_njobs' = sd_njobs + 1
    /\ last_op' = "generate_sd_image"
    /\ UNCHANGED <<chat_vars, sd_tick_pc, sd_prompt, sd_settings, sd_image_bytes, ui_panicked,
                   sd_poller, sd_progress_slot, sd_checkpoint>>

ClickGenerate_NoGeneratingCheck ==
    /\ ~ui_panicked
    /\ sd_prompt # ""
    /\ sd_njobs < MaxSdJobs
    /\ GenerateSdImage

\* the Generate Image button
ClickGenerate ==
    /\ ~ui_panicked
    /\ sd_prompt # "" /\ ~sd_generating
    /\ sd_njobs < MaxSdJobs
    /\ GenerateSdImage

SdStep(th) ==
    /\ ~ui_panicked
    /\ sd_thread' = th
    /\ last_op' = "other"
    /\ UNCHANGED <<chat_vars, sd_tick_pc, sd_prompt, sd_settings, sd_job, sd_poller,
                   sd_progress_slot, sd_checkpoint>>

\* change_model: the POST to /sdapi/v1/options, sent whenever a model name
\* is selected
SdChangeModel ==
    /\ sd_thread.pc = "start" /\ sd_thread.model_name # ""
    /\ SdStep([sd_thread EXCEPT !.pc = "await_options",
                                !.log = Append(@, "POST options"),
                                !.current_at_post = Some(sd_checkpoint)])

\* the service answers 2xx and has loaded the checkpoint
SdChangeModelOk ==
    /\ ~ui_panicked
    /\ sd_thread.pc = "await_options"
    /\ sd_thread' = [sd_thread EXCEPT !.pc = "model_changed",
                                      !.log = Append(@, "options ok")]
    /\ sd_checkpoint' = sd_thread.model_name
    /\ last_op' = "other"
    /\ UNCHANGED <<chat_vars, sd_tick_pc, sd_prompt, sd_settings, sd_job, sd_poller,
                   sd_progress_slot>>

SdChangeModelFails_GoesOn ==
    /\ sd_thread.pc = "await_options"
    /\ SdStep([sd_thread EXCEPT !.pc = "model_changed",
                                !.log = Append(@, "options failed")])

\* the POST fails or is answered with a non-2xx status: the closure returns
\* Err("Failed to change model")
SdChangeModelFails ==
    /\ sd_thread.pc = "await_options"
    /\ SdStep([sd_thread EXCEPT !.pc = "done",
                                !.result = Some(SdErr(<<"Failed to change model">>)),
                                !.log = Append(@, "options failed")])

\* generate_image up to the POST to /sdapi/v1/txt2img
SdPostGenerate ==
    /\ \/ sd_thread.pc = "start" /\ sd_thread.model_name = ""
       \/ sd_thread.pc = "model_changed"
    /\ SdStep([sd_thread EXCEPT
                  !.pc = "await_txt2img",
                  !.posted = Some(SetHiresDefaults(Unwrap(sd_thread.request))),
                  !.log = Append(@, "POST txt2img")])

\* generate_image has returned `res`; the closure spawns the progress task
\* next and has its result ready
SdGenerated(res, what, resp) ==
    /\ ~ui_panicked
    /\ sd_thread.pc = "await_txt2img"
    /\ sd_thread' = [sd_thread EXCEPT !.pc = "spawned",
                                      !.image_data_result = Some(res),
                                      !.response = resp,
                                      !.log = Append(@, what)]
    /\ sd_poller' = [pc |-> "polling", polls |-> <<>>]
    /\ last_op' = "other"
    /\ UNCHANGED <<chat_vars, sd_tick_pc, sd_prompt, sd_settings, sd_job, sd_progress_slot,
                   sd_checkpoint>>

\* the txt2img POST is answered
SdGenerateResponse(resp) ==
    SdGenerated(GenerateImageResult(resp),
                IF resp.status \in 200..299 THEN "txt2img 2xx" ELSE "txt2img error",
                Some(resp))

\* the txt2img POST fails (no connection, timeout)
SdGenerateFails ==
    SdGenerated(SdErr(<<"Failed to connect to Stable Diffusion API">>),
                "txt2img failed", None)

\* block_on returns image_data_result, the Runtime is dropped with the
\* progress task on it, and the Promise becomes ready
SdReturn ==
    /\ ~ui_panicked
    /\ sd_thread.pc = "spawned"
    /\ sd_thread' = [sd_thread EXCEPT !.pc = "done",
                                      !.result = sd_thread.image_data_result]
    /\ sd_poller' = IF sd_poller.pc \in {"polling", "sleeping"}
                    THEN [sd_poller EXCEPT !.pc = "cancelled"]
                    ELSE sd_poller
    /\ last_op' = "other"
    /\ UNCHANGED <<chat_vars, sd_tick_pc, sd_prompt, sd_settings, sd_job, sd_progress_slot,
                   sd_checkpoint>>

SdPoll(pc, polled, slot) ==
    /\ ~ui_panicked
    /\ sd_poller.pc = "polling"
    /\ Len(sd_poller.polls) < MaxPolls
    /\ sd_poller' = [pc |-> pc, polls |-> Append(sd_poller.polls, polled)]
    /\ sd_progress_slot' = slot
    /\ last_op' = "other"
    /\ UNCHANGED <<chat_vars, sd_tick_pc, sd_prompt, sd_settings, sd_job, sd_thread,
                   sd_checkpoint>>

\* check_progress returns Ok: the value goes into the slot, and the task
\* ends at 100 or sleeps. `job` is the submission whose task wrote the
\* value, read by the properties only
SdPollOk(progress) ==
    SdPoll(IF progress >= 100 THEN "stopped" ELSE "sleeping",
           [ok |-> TRUE, progress |-> progress],
           Some([progress |-> progress, job |-> sd_njobs]))

SdPollFails_Escalates ==
    /\ ~ui_panicked
    /\ sd_poller.pc = "polling"
    /\ Len(sd_poller.polls) < MaxPolls
    /\ sd_poller' = [pc |-> "stopped",
                     polls |-> Append(sd_poller.polls, [ok |-> FALSE, progress |-> 0])]
    /\ sd_thread' = [sd_thread EXCEPT
                        !.image_data_result = Some(SdErr(<<"Failed to check progress">>))]
    /\ last_op' = "other"
    /\ UNCHANGED <<chat_vars, sd_tick_pc, sd_prompt, sd_settings, sd_job, sd_progress_slot,
                   sd_checkpoint>>

\* check_progress returns Err: the while-let ends the task
SdPollFails ==
    SdPoll("stopped", [ok |-> FALSE, progress |-> 0], sd_progress_slot)

\* the 500 ms sleep is over
SdPollWake ==
    /\ ~ui_panicked
    /\ sd_poller.pc = "sleeping"
    /\ sd_poller' = [sd_poller EXCEPT !.pc = "polling"]
    /\ last_op' = "other"
    /\ UNCHANGED <<chat_vars, sd_tick_pc, sd_prompt, sd_settings, sd_job, sd_thread,
                   sd_progress_slot, sd_checkpoint>>

\* process_sd_generation, once per frame: the slot, then the Promise; the
\* expect on load_from_memory panics between the two assignments of a retire
ProcessSdGeneration ==
    /\ ~ui_panicked
    /\ sd_progress' = IF IsSome(sd_progress_slot)
                      THEN Unwrap(sd_progress_slot).progress
                      ELSE sd_progress
    /\ sd_progress_slot' = None
    /\ IF IsSome(sd_pending_generation) /\ sd_thread.pc = "done"
       THEN LET result == Unwrap(sd_thread.result)
                panics == result.ok /\ ~IsImage(result.image)
            IN /\ sd_generating' = FALSE
               /\ sd_image_bytes' = IF result.ok THEN Some(result.image)
                                    ELSE sd_image_bytes
               /\ sd_error_message' = IF result.ok THEN sd_error_message
                                      ELSE Some(<<"Error: ">> \o result.e)
               /\ ui_panicked' = panics
               /\ sd_pending_generation' = IF panics THEN sd_pending_generation
                                           ELSE None
               /\ sd_thread' = IF panics THEN sd_thread
                               ELSE [sd_thread EXCEPT !.pc = "retired"]
       ELSE UNCHANGED <<sd_generating, sd_image_bytes, sd_error_message,
                        sd_pending_generation, sd_thread, ui_panicked>>
    /\ last_op' = "process_sd_generation"
    /\ UNCHANGED <<chat_vars, sd_tick_pc, sd_prompt, sd_settings, sd_poller, sd_checkpoint,
                   sd_njobs>>

\* process_sd_generation in the two steps in which it meets the background
\* threads: its read of the "sd_progress" entry (487-490) ...
SdTakeProgress ==
    /\ ~ui_panicked
    /\ sd_tick_pc = "idle"
    /\ sd_progress' = IF IsSome(sd_progress_slot)
                      THEN Unwrap(sd_progress_slot).progress
                      ELSE sd_progress
    /\ sd_progress_slot' = None
    /\ sd_tick_pc' = "check"
    /\ last_op' = "other"
    /\ UNCHANGED <<chat_vars, sd_prompt, sd_settings, sd_generating,
                   sd_pending_generation, sd_error_message, sd_image_bytes,
                   sd_njobs, ui_panicked, sd_thread, sd_poller, sd_checkpoint>>

\* ... and its look at the Promise (493-525), which retires a finished job
SdCheckGeneration ==
    /\ ~ui_panicked
    /\ sd_tick_pc = "check"
    /\ sd_tick_pc' = "idle"
    /\ IF IsSome(sd_pending_generation) /\ sd_thread.pc = "done"
       THEN LET result == Unwrap(sd_thread.result)
                panics == result.ok /\ ~IsImage(result.image)
            IN /\ sd_generating' = FALSE
               /\ sd_image_bytes' = IF result.ok THEN Some(result.image)
                                    ELSE sd_image_bytes
               /\ sd_error_message' = IF result.ok THEN sd_error_message
                                      ELSE Some(<<"Error: ">> \o result.e)
               /\ ui_panicked' = panics
               /\ sd_pending_generation' = IF panics THEN sd_pending_generation
                                           ELSE None
               /\ sd_thread' = IF panics THEN sd_thread
                               ELSE [sd_thread EXCEPT !.pc = "retired"]
       ELSE UNCHANGED <<sd_generating, sd_image_bytes, sd_error_message,
                        sd_pending_generation, sd_thread, ui_panicked>>
    /\ last_op' = "process_sd_generation"
    /\ UNCHANGED <<chat_vars, sd_prompt, sd_settings, sd_progress, sd_progress_slot,
                   sd_poller, sd_checkpoint, sd_njobs>>

\* ----------------------------------------------------------- the model list
\* The settings window is open (show_settings starts true). error_message,
\* the "models_error" entry and selected_model are not part of the model.
\* the lists a server answers a list_models call with
ModelLists == {<<"llama">>, <<"llama", "phi">>}

\* the task of request r has not answered yet
ListPending(r) == r \in 1..Len(models_requests) /\ models_requests[r].state = "pending"

\* refresh_models: the task gets a clone of the client as it is now
SpawnListModels ==
    /\ Len(models_requests) < MaxRefresh
    /\ models_loading' = TRUE
    /\ models_requests' = Append(models_requests,
                                 [et |-> client.endpoint_type, state |-> "pending"])

\* the refresh button of the settings window
RefreshModels ==
    /\ SpawnListModels
    /\ last_op' = "refresh_models"
    /\ UNCHANGED <<available_models, models_slot, installed_request>>
    /\ UNCHANGED <<chat_vars_only, sd_vars>>

\* the Test Connection button with a URL that parses: the list is cleared,
\* the client is rebuilt from the settings and the list is asked for again
TestConnection ==
    /\ available_models' = <<>>
    /\ installed_request' = 0
    /\ client' = [endpoint_type |-> endpoint_type]
    /\ SpawnListModels
    /\ last_op' = "test_connection"
    /\ UNCHANGED models_slot
    /\ UNCHANGED <<input, chat_history, pending_response, response_receiver,
                   current_response, endpoint_type, threads, chan, njobs, sd_vars>>

\* the task of request r gets its answer and puts it into the egui memory,
\* replacing whatever the entry holds
ListModelsOk(r, models) ==
    /\ ListPending(r)
    /\ models_requests' = [models_requests EXCEPT ![r].state = "ok"]
    /\ models_slot' = Some([models |-> models, request |-> r])
    /\ last_op' = "other"
    /\ UNCHANGED <<available_models, models_loading, installed_request>>
    /\ UNCHANGED <<chat_vars_only, sd_vars>>

\* list_models fails: the task reports to "models_error" only
ListModelsFails(r) ==
    /\ ListPending(r)
    /\ models_requests' = [models_requests EXCEPT ![r].state = "failed"]
    /\ last_op' = "other"
    /\ UNCHANGED <<available_models, models_loading, models_slot, installed_request>>
    /\ UNCHANGED <<chat_vars_only, sd_vars>>

\* the head of show_settings_window on a frame that finds a list in the
\* egui memory: it is taken and installed
ShowSettingsWindow ==
    /\ IsSome(models_slot)
    /\ available_models' = Unwrap(models_slot).models
    /\ installed_request' = Unwrap(models_slot).request
    /\ models_loading' = FALSE
    /\ models_slot' = None
    /\ last_op' = "other"
    /\ UNCHANGED models_requests
    /\ UNCHANGED <<chat_vars_only, sd_vars>>

\* ----------------------------------------------------------- specifications
Init ==
    /\ input = Empty
    /\ chat_history = <<>>
    /\ pending_response = 0
    /\ response_receiver = 0
    /\ current_response = Empty
    /\ endpoint_type = Ollama
    /\ client = [endpoint_type |-> Ollama]
    /\ threads = [j \in Jobs |-> IdleThread]
    /\ chan = [j \in Jobs |-> NoChannel]
    /\ njobs = 0
    /\ last_op = "other"
    /\ SdInit
    /\ ModelsInit

Next ==
    \/ \E s \in TypedPrompts \cup {Empty} : EditInput(s)
    \/ SendMessage
    \/ ClearChat
    \/ \E e \in EndpointType : UpdateEndpointType(e)
    \/ UpdateClientUrl
    \/ ProcessResponseChunks
    \/ \E j \in Jobs : PostRequest(j)
    \/ \E j \in Jobs : SendFails(j)
    \/ \E j \in Jobs : ResponseError(j)
    \/ \E j \in Jobs : ResponseOk(j)
    \/ \E j \in Jobs : ReadChunk(j)
    \/ \E j \in Jobs : ProcessLine(j)
    \/ \E j \in Jobs : ReadError(j)
    \/ \E j \in Jobs : StreamEnd(j)

Spec == Init /\ [][Next]_vars

\* The decoder on its own: a job whose POST was answered 2xx with a wire
\* stream drawn from the bounded sets, under every chunking of its bytes.
Example1 ==
    <<ObjFrame(LMObj(<<Choice(Some(<<"Hi">>), None)>>)),
      ObjFrame(LMObj(<<Choice(None, Some(<<"stop">>))>>))>>
Example2 ==
    <<ObjFrame(OllamaObj(Some(THINK), FALSE)),
      ObjFrame(OllamaObj(Some(<<"reasoning">>), FALSE)),
      ObjFrame(OllamaObj(Some(ETHINK), FALSE)),
      ObjFrame(OllamaObj(Some(<<"answer">>), TRUE))>>

DecodeWires(et) ==
    IF et = LMStudio THEN SeqsUpTo(LMFrames, MaxFrames) \cup {Example1}
    ELSE SeqsUpTo(OllamaFrames, MaxFrames) \cup {Example2}

\* the state in which job 1, sent with prompt `prompt` on an empty history
\* by a client of family `et`, has pushed the deltas `pushed`, none of them
\* received yet, and goes on to read stream `s`
StreamingAfter(et, prompt, s, pushed) ==
    /\ input = Empty
    /\ chat_history = <<<<"user", prompt>>>>
    /\ pending_response = 1
    /\ response_receiver = 1
    /\ current_response = Empty
    /\ endpoint_type = et
    /\ client = [endpoint_type |-> et]
    /\ threads = [j \in Jobs |->
          IF j = 1
          THEN [IdleThread EXCEPT
                   !.pc = "read", !.et = et,
                   !.chat_history = <<<<"user", prompt>>>>,
                   !.prompt = prompt, !.model = DEFAULT_MODEL,
                   !.request = Some(RequestBody(et, DEFAULT_MODEL,
                                       BuildMessages(<<<<"user", prompt>>>>, prompt))),
                   !.chunks = s.chunks, !.frames = s.frames, !.cuts = s.cuts,
                   !.sent = pushed]
          ELSE IdleThread]
    /\ chan = [j \in Jobs |->
          IF j = 1 THEN [queue |-> pushed, rx_alive |-> TRUE] ELSE NoChannel]
    /\ njobs = 1
    /\ last_op = "other"
    /\ SdInit
    /\ ModelsInit

\* the state in which job 1 starts to read stream `s`
Streaming(et, prompt, s) == StreamingAfter(et, prompt, s, <<>>)

DecodeInit ==
    \E et \in EndpointType : \E fs \in DecodeWires(et) :
        \E cuts \in Chunkings(et, fs) : Streaming(et, <<"p">>, Stream(et, fs, cuts))

DecodeNext ==
    \/ \E j \in Jobs : ReadChunk(j)
    \/ \E j \in Jobs : ProcessLine(j)
    \/ \E j \in Jobs : StreamEnd(j)

DecodeSpec == DecodeInit /\ [][DecodeNext]_vars

\* chat_stream's request on its own: any history argument and prompt
Roles == {"user", "assistant", "error"}
Turns == {<<r, c>> : r \in Roles, c \in Prompts}

RequestInit ==
    \E et \in EndpointType, h \in SeqsUpTo(Turns, MaxHist), p \in Prompts :
        /\ input = Empty
        /\ chat_history = h
        /\ pending_response = 1
        /\ response_receiver = 1
        /\ current_response = Empty
        /\ endpoint_type = et
        /\ client = [endpoint_type |-> et]
        /\ threads = [j \in Jobs |->
              IF j = 1
              THEN [IdleThread EXCEPT !.pc = "start", !.et = et, !.chat_history = h,
                                      !.prompt = p, !.model = DEFAULT_MODEL]
              ELSE IdleThread]
        /\ chan = [j \in Jobs |->
              IF j = 1 THEN [queue |-> <<>>, rx_alive |-> TRUE] ELSE NoChannel]
        /\ njobs = 1
        /\ last_op = "other"
        /\ SdInit
        /\ ModelsInit

RequestNext == \E j \in Jobs : PostRequest(j)

RequestSpec == RequestInit /\ [][RequestNext]_vars

\* chat_stream run by a caller that keeps its result and drops the Receiver
\* of the delta channel at any moment of the decode.
ReceiverDropped(j) ==
    /\ Alive(j)
    /\ response_receiver = j
    /\ response_receiver' = 0
    /\ chan' = DropReceiver(chan, j)
    /\ last_op' = "other"
    /\ UNCHANGED <<sd_vars, models_vars>>
    /\ UNCHANGED <<input, chat_history, pending_response, current_response,
                   endpoint_type, client, threads, njobs>>

CancelStreams(et) ==
    AppStreams(et) \cup {Framed(et, IF et = LMStudio THEN Example1 ELSE Example2)}

CancelInit ==
    \E et \in EndpointType : \E s \in CancelStreams(et) :
        \E cuts \in Chunkings(et, s.frames) :
            Streaming(et, <<"p">>, Stream(et, s.frames, cuts))

CancelNext ==
    \/ \E j \in Jobs : ReadChunk(j)
    \/ \E j \in Jobs : ProcessLine(j)
    \/ \E j \in Jobs : StreamEnd(j)
    \/ \E j \in Jobs : ReceiverDropped(j)

CancelSpec == CancelInit /\ [][CancelNext]_vars

\* A long answer read by a consumer that lags: the producer has pushed nearly
\* as many deltas as the channel holds before the next tick, and ticks come
\* while the running producer's channel has fewer than MaxLag free slots.
Backlog(n) == [i \in 1..n |-> <<"Hi">>]
Lags == {ChannelCapacity - 2, ChannelCapacity - 1}

LagInit ==
    \E et \in EndpointType : \E s \in AppStreams(et) : \E n \in Lags :
        StreamingAfter(et, <<"p">>, s, Backlog(n))

LagNext ==
    \/ \E j \in Jobs : ReadChunk(j)
    \/ \E j \in Jobs : ProcessLine(j)
    \/ \E j \in Jobs : StreamEnd(j)
    \/ /\ \A j \in Jobs : Alive(j) => Len(chan[j].queue) > ChannelCapacity - MaxLag
       /\ ProcessResponseChunks

LagSpec == LagInit /\ [][LagNext]_vars

\* chat_stream called twice by one caller on the same LLMClient, the server
\* answering the second call with the chunks of the first; the caller keeps
\* both results.  Every call starts from its arguments alone: `buffer` and
\* `stream` are locals of the call.
Rerun_KeepsPosition ==
    /\ Ready(1) /\ threads[2].pc = "idle"
    /\ LET th == threads[1]
       IN threads' = [threads EXCEPT ![2] =
              [IdleThread EXCEPT
                  !.pc = "read", !.et = th.et, !.chat_history = th.chat_history,
                  !.prompt = th.prompt, !.model = th.model, !.request = th.request,
                  !.chunks = Tail(ChunksOf(WireBytes(th.et, th.frames), th.cuts)),
                  !.frames = th.frames, !.cuts = th.cuts]]
    /\ chan' = [chan EXCEPT ![2] = [queue |-> <<>>, rx_alive |-> TRUE]]
    /\ pending_response' = 2
    /\ response_receiver' = 2
    /\ njobs' = 2
    /\ last_op' = "other"
    /\ UNCHANGED <<sd_vars, models_vars>>
    /\ UNCHANGED <<input, chat_history, current_response, endpoint_type, client>>

Rerun ==
    /\ Ready(1) /\ threads[2].pc = "idle"
    /\ LET th == threads[1]
       IN threads' = [threads EXCEPT ![2] =
              [IdleThread EXCEPT
                  !.pc = "read", !.et = th.et, !.chat_history = th.chat_history,
                  !.prompt = th.prompt, !.model = th.model, !.request = th.request,
                  !.chunks = ChunksOf(WireBytes(th.et, th.frames), th.cuts),
                  !.frames = th.frames, !.cuts = th.cuts]]
    /\ chan' = [chan EXCEPT ![2] = [queue |-> <<>>, rx_alive |-> TRUE]]
    /\ pending_response' = 2
    /\ response_receiver' = 2
    /\ njobs' = 2
    /\ last_op' = "other"
    /\ UNCHANGED <<sd_vars, models_vars>>
    /\ UNCHANGED <<input, chat_history, current_response, endpoint_type, client>>

TwiceInit == CancelInit

TwiceNext ==
    \/ \E j \in Jobs : ReadChunk(j)
    \/ \E j \in Jobs : ProcessLine(j)
    \/ \E j \in Jobs : StreamEnd(j)
    \/ Rerun

TwiceSpec == TwiceInit /\ [][TwiceNext]_vars

\* The image tab on its own.
SdServiceResponses ==
    { SdResponse(200, TextToImageResponseFields, << <<"A", "A", "A", "A">> >>),
      SdResponse(200, TextToImageResponseFields, << <<"B", "B", "B", "B">> >>),
      SdResponse(500, {}, <<>>) }

SdNext ==
    \/ \E p \in SdPrompts : EditSdPrompt(p)
    \/ \E ms \in SeqsUpTo(SdModelNames, 2) : LoadSdModels(ms)
    \/ ClickGenerate
    \/ SdChangeModel
    \/ SdChangeModelOk
    \/ SdChangeModelFails
    \/ SdPostGenerate
    \/ \E r \in SdServiceResponses : SdGenerateResponse(r)
    \/ SdGenerateFails
    \/ SdReturn
    \/ \E p \in SdProgressValues : SdPollOk(p)
    \/ SdPollFails
    \/ SdPollWake
    \/ ProcessSdGeneration

SdSpec == Init /\ [][SdNext]_vars

\* SDClient::generate_image on its own: any request a caller can build, any
\* answer the service can give.
B64Strings ==
    { <<"A", "A", "A", "A">>, <<"B", "B", "B", "B">>, <<"A", "A", "=", "=">>,
      <<"A", "B", "=", "=">>, <<"A", "*", "A", "A">>, <<"A", "A", "A">> }

GenerateRequests ==
    { [TextToImageRequest(<<"cat">>, steps) EXCEPT
          !.enable_hr = hr, !.hr_scale = scale,
          !.hr_second_pass_steps = second, !.denoising_strength = strength] :
      steps \in {7, DefaultSdSteps}, hr \in {None, Some(FALSE)},
      scale \in {None, Some(15)}, second \in {None, Some(3)},
      strength \in {None, Some(30)} }

GenerateResponses ==
    { SdResponse(status, fields, images) :
      status \in {200, 500},
      fields \in {TextToImageResponseFields, {"images", "parameters"}},
      images \in SeqsUpTo(B64Strings, MaxImages) }

GenerateInit ==
    /\ input = Empty
    /\ chat_history = <<>>
    /\ pending_response = 0
    /\ response_receiver = 0
    /\ current_response = Empty
    /\ endpoint_type = Ollama
    /\ client = [endpoint_type |-> Ollama]
    /\ threads = [j \in Jobs |-> IdleThread]
    /\ chan = [j \in Jobs |-> NoChannel]
    /\ njobs = 0
    /\ last_op = "other"
    /\ sd_prompt = "cat"
    /\ sd_generating = TRUE
    /\ sd_progress = 0
    /\ sd_pending_generation = Some(1)
    /\ sd_error_message = None
    /\ sd_image_bytes = None
    /\ sd_models = <<>>
    /\ sd_selected_model = ""
    /\ sd_selected_lora = None
    /\ sd_lora_weight = 70
    /\ ModelsInit
    /\ \E request \in GenerateRequests :
          sd_thread = [SdIdleThread EXCEPT !.pc = "start",
                                           !.request = Some(request)]
    /\ sd_poller = SdNoPoller
    /\ sd_progress_slot = None
    /\ sd_checkpoint = "m1"
    /\ sd_njobs = 1
    /\ ui_panicked = FALSE
    /\ sd_tick_pc = "idle"

GenerateNext ==
    \/ SdPostGenerate
    \/ \E r \in GenerateResponses : SdGenerateResponse(r)
    \/ SdGenerateFails

GenerateSpec == GenerateInit /\ [][GenerateNext]_vars

\* The prompt of a submission: the text box, the LoRA fields and submissions
\* that run to their end without a model selected.
PromptNext ==
    \/ \E p \in SdPrompts : EditSdPrompt(p)
    \/ \E l \in {None} \cup {Some(n) : n \in SdLoraNames} :
          \E w \in SdLoraWeights : SelectLora(l, w)
    \/ ClickGenerate
    \/ SdPostGenerate
    \/ SdGenerateFails
    \/ SdReturn
    \/ ProcessSdGeneration

PromptSpec == Init /\ [][PromptNext]_vars

\* ---- main.rs: its own LLMClient::chat_stream and the consumer in update
\* what one line of a compatible-family chunk decodes to in main.rs; `stop`
\* is the assignment done = true. The lines of the model's wires have no
\* blanks around them for line.trim() to remove.
MainLMLine(line) ==
    IF ~StartsWithData(line) THEN Continue
    ELSE IF Tail(line) = <<DONEP>> THEN [emit |-> None, stop |-> TRUE]
    ELSE LET r == ParseChatResponse(Tail(line))
         IN IF IsSome(r) /\ Unwrap(r).choices # <<>>
            THEN [emit |-> Unwrap(r).choices[1].content,
                  stop |-> IsSome(Unwrap(r).choices[1].finish_reason)]
            ELSE Continue

\* the end of one decode iteration in main.rs: the fragment goes onto
\* `buffer`, tx.send(buffer.clone()).ok() pushes the whole buffer and drops a
\* failure, a terminal input sets `done`, and the loop goes on
MainDeliver(j, th, d, next_pc) ==
    LET buffer == IF IsSome(d.emit) THEN th.buffer \o Unwrap(d.emit) ELSE th.buffer
        pushes == IsSome(d.emit) /\ chan[j].rx_alive
    IN /\ pushes => Len(chan[j].queue) < ChannelCapacity
       /\ chan' = IF pushes THEN [chan EXCEPT ![j].queue = Append(@, buffer)]
                  ELSE chan
       /\ threads' = [threads EXCEPT ![j] =
             [th EXCEPT !.sent = IF pushes THEN Append(@, buffer) ELSE @,
                        !.buffer = buffer,
                        !.done = @ \/ d.stop,
                        !.pc = next_pc]]

\* stream.next() yields a chunk
MainReadChunk(j) ==
    /\ threads[j].pc = "read"
    /\ threads[j].chunks # <<>>
    /\ LET text == Head(threads[j].chunks)
           th == [threads[j] EXCEPT !.chunks = Tail(@)]
       IN IF th.et = LMStudio
          THEN /\ threads' = [threads EXCEPT ![j] =
                      [th EXCEPT !.lines = Lines(text),
                                 !.pc = IF Lines(text) = <<>> THEN "read" ELSE "lines"]]
               /\ chan' = chan
          ELSE MainDeliver(j, [th EXCEPT !.seen = Append(@, text)],
                           OllamaChunk(text), "read")
    /\ last_op' = "other"
    /\ UNCHANGED <<sd_vars, models_vars>>
    /\ UNCHANGED app_vars

\* one iteration of `for line in chunk_str.lines()`
MainProcessLine(j) ==
    /\ threads[j].pc = "lines"
    /\ LET line == Head(threads[j].lines)
           rest == Tail(threads[j].lines)
           th == [threads[j] EXCEPT !.lines = rest, !.seen = Append(@, line)]
       IN MainDeliver(j, th, MainLMLine(line), IF rest = <<>> THEN "read" ELSE "lines")
    /\ last_op' = "other"
    /\ UNCHANGED <<sd_vars, models_vars>>
    /\ UNCHANGED app_vars

MainStreamEnd_OkWithoutDone(j) ==
    /\ threads[j].pc = "read"
    /\ threads[j].chunks = <<>>
    /\ Return(j, Ok)
    /\ last_op' = "other"
    /\ UNCHANGED <<sd_vars, models_vars>>
    /\ UNCHANGED <<app_vars, chan>>

\* stream.next() yields None: Ok(()) if `done` was set, an error otherwise
MainStreamEnd(j) ==
    /\ threads[j].pc = "read"
    /\ threads[j].chunks = <<>>
    /\ Return(j, IF threads[j].done THEN Ok
                 ELSE Err(<<"Stream ended without completion">>))
    /\ last_op' = "other"
    /\ UNCHANGED <<sd_vars, models_vars>>
    /\ UNCHANGED <<app_vars, chan>>

\* the head of update in main.rs: a received value replaces current_response,
\* then a ready Promise retires the job
MainUpdate ==
    LET got == response_receiver # 0 /\ chan[response_receiver].queue # <<>>
        cur == IF got THEN Head(chan[response_receiver].queue)
               ELSE current_response
        ready == pending_response # 0 /\ Ready(pending_response)
        result == Unwrap(threads[pending_response].result)
        ch == IF got THEN [chan EXCEPT ![response_receiver].queue = Tail(@)] ELSE chan
    IN /\ IF ready
          THEN /\ chat_history' =
                      IF cur # Empty THEN Append(chat_history, <<"assistant", cur>>)
                      ELSE IF ~result.ok
                      THEN Append(chat_history, <<"error", <<"Error: ">> \o result.e>>)
                      ELSE chat_history
               /\ current_response' = Empty
               /\ pending_response' = 0
               /\ response_receiver' = 0
               /\ chan' = DropReceiver(ch, response_receiver)
               /\ threads' = DropPromise(threads, pending_response)
          ELSE /\ current_response' = cur
               /\ chan' = ch
               /\ UNCHANGED <<chat_history, pending_response, response_receiver,
                              threads>>
       /\ last_op' = "update"
       /\ UNCHANGED <<sd_vars, models_vars>>
       /\ UNCHANGED <<input, endpoint_type, client, njobs>>

\* main.rs's producer and consumer on the streams of the cancel runs
MainNext ==
    \/ \E j \in Jobs : MainReadChunk(j)
    \/ \E j \in Jobs : MainProcessLine(j)
    \/ \E j \in Jobs : MainStreamEnd(j)
    \/ MainUpdate

MainSpec == CancelInit /\ [][MainNext]_vars

\* EndpointType::models_endpoint and chat_endpoint on their own. A path is a
\* sequence of pieces: "/", a directory name, or one of the fixed suffixes.
CHAT_COMPLETIONS == <<"v1/chat/completions">>

\* str::trim_end_matches: the pattern is removed from the end as often as it
\* is found there
RECURSIVE TrimEndMatches(_, _)
TrimEndMatches(s, pat) ==
    IF Len(s) >= Len(pat) /\ SubSeq(s, Len(s) - Len(pat) + 1, Len(s)) = pat
    THEN TrimEndMatches(SubSeq(s, 1, Len(s) - Len(pat)), pat)
    ELSE s

\* str::trim_start_matches
RECURSIVE TrimStartMatches(_, _)
TrimStartMatches(s, pat) ==
    IF Len(s) >= Len(pat) /\ SubSeq(s, 1, Len(pat)) = pat
    THEN TrimStartMatches(SubSeq(s, Len(pat) + 1, Len(s)), pat)
    ELSE s

\* the Ollama arm of both functions, for the family's own suffix
NativeEndpoint(endpoint, suffix) ==
    IF endpoint = <<>> THEN suffix
    ELSE LET base == TrimEndMatches(endpoint, CHAT_COMPLETIONS)
         IN TrimStartMatches(TrimEndMatches(base, <<"/">>) \o suffix, <<"/">>)

models_endpoint(et, endpoint) ==
    IF et = LMStudio THEN <<"v1/models">>
    ELSE NativeEndpoint(endpoint, <<"api/tags">>)

chat_endpoint(et, endpoint) ==
    IF et = LMStudio THEN CHAT_COMPLETIONS
    ELSE NativeEndpoint(endpoint, <<"api/chat">>)

\* the endpoint strings of the settings window
Endpoints == SeqsUpTo({"/", "proxy", "v1/chat/completions"}, MaxEndpointLen)

\* an LLMClient with some endpoint; models_path and chat_path are the paths
\* its list_models and chat_stream calls have put into their URL, read by
\* the properties only
EndpointInit ==
    /\ input = Empty
    /\ chat_history = <<>>
    /\ pending_response = 0
    /\ response_receiver = 0
    /\ current_response = Empty
    /\ endpoint_type \in EndpointType
    /\ \E e \in Endpoints :
          client = [endpoint_type |-> endpoint_type, endpoint |-> e,
                    models_path |-> None, chat_path |-> None]
    /\ threads = [j \in Jobs |-> IdleThread]
    /\ chan = [j \in Jobs |-> NoChannel]
    /\ njobs = 0
    /\ last_op = "other"
    /\ SdInit
    /\ ModelsInit

\* list_models up to its URL
ListModelsUrl ==
    /\ client.models_path = None
    /\ client' = [client EXCEPT
                     !.models_path = Some(models_endpoint(client.endpoint_type,
                                                          client.endpoint))]
    /\ UNCHANGED <<input, chat_history, pending_response, response_receiver,
                   current_response, endpoint_type, threads, chan, njobs, last_op,
                   sd_vars, models_vars>>

\* chat_stream up to its URL
ChatStreamUrl ==
    /\ client.chat_path = None
    /\ client' = [client EXCEPT
                     !.chat_path = Some(chat_endpoint(client.endpoint_type,
                                                      client.endpoint))]
    /\ UNCHANGED <<input, chat_history, pending_response, response_receiver,
                   current_response, endpoint_type, threads, chan, njobs, last_op,
                   sd_vars, models_vars>>

EndpointNext == ListModelsUrl \/ ChatStreamUrl

EndpointSpec == EndpointInit /\ [][EndpointNext]_vars

\* ------------------------------------------------------------------- claims
Producers == {j \in Jobs : Alive(j)}

\* C1 as stated: at most one chat producer thread is alive at any time.
C1_AtMostOneProducer == Cardinality(Producers) <= 1

\* C1 as it holds: every running producer that can still deliver a delta (the
\* receiving end of its channel is held) is the producer of the pending job,
\* so at most one such producer runs; a producer orphaned by clear_chat runs
\* on with its receiver dropped while a new job is started.
C1_AtMostOneAttachedProducer ==
    /\ \A j \in Producers :
          chan[j].rx_alive => pending_response = j /\ response_receiver = j
    /\ Cardinality({j \in Producers : chan[j].rx_alive}) <= 1

\* two producers are running: the pending job's, and an orphan of clear_chat
C1_Witness ==
    \E j, k \in Producers :
        /\ j # k
        /\ pending_response = k /\ chan[k].rx_alive
        /\ ~chan[j].rx_alive

\* C2: a step of send_message taken while a job is pending or the input is
\* empty spawns no producer, creates no channel and leaves chat_history,
\* input, current_response, pending_response and response_receiver unchanged.
C2_RejectedSendIsNoOp ==
    [][(last_op' = "send_message" /\ (input = Empty \/ pending_response # 0))
          => UNCHANGED <<chat_history, input, current_response, pending_response,
                         response_receiver, threads, chan, njobs>>]_vars

\* send_message has just returned early on a pending job, the input not empty
C2_Witness ==
    /\ last_op = "send_message"
    /\ pending_response # 0
    /\ input # Empty
    /\ Alive(pending_response)

\* the history argument as a message array, nothing dropped
AsMessages(history) ==
    [i \in 1..Len(history) |-> Message(history[i][1], history[i][2])]
Count(seq, x) == Cardinality({i \in 1..Len(seq) : seq[i] = x})

\* C3: the message array of the request of every accepted send is the
\* history as it stood before the send, in order, followed by one
\* {role: "user", content: prompt}; the prompt's entry occurs once more in it
\* than in that history.
C3_MessagesAreHistoryThenPrompt ==
    \A j \in Jobs :
        IsSome(threads[j].request) =>
            LET th == threads[j]
                messages == Unwrap(th.request).messages
                entry == Message("user", th.prompt)
            IN /\ messages = AsMessages(th.H) \o <<entry>>
               /\ Count(messages, entry) = Count(AsMessages(th.H), entry) + 1

\* a request sent after a user turn with the same prompt and an assistant turn
C3_Witness ==
    \E j \in Jobs :
        /\ IsSome(threads[j].request)
        /\ \E a, b \in 1..Len(threads[j].H) :
              /\ threads[j].H[a] = <<"user", threads[j].prompt>>
              /\ threads[j].H[b][1] = "assistant"

\* C4 as stated: the message array is the whole history argument followed by
\* the prompt.
C4_HistoryVerbatim ==
    \A j \in Jobs :
        IsSome(threads[j].request) =>
            Unwrap(threads[j].request).messages =
                AsMessages(threads[j].chat_history)
                    \o <<Message("user", threads[j].prompt)>>

\* C4 as it holds: the message array is the history argument without its last
\* element (whatever that element is), in order, followed by one
\* {role: "user", content: prompt}; of an empty history nothing is dropped.
C4_HistoryButLastThenPrompt ==
    \A j \in Jobs :
        IsSome(threads[j].request) =>
            LET h == threads[j].chat_history
                messages == Unwrap(threads[j].request).messages
                n == Len(messages)
            IN /\ n = IF h = <<>> THEN 1 ELSE Len(h)
               /\ \A i \in 1..(n - 1) : messages[i] = Message(h[i][1], h[i][2])
               /\ messages[n] = Message("user", threads[j].prompt)

\* a request built from a history whose last turn is not the prompt
C4_Witness ==
    \E j \in Jobs :
        /\ IsSome(threads[j].request)
        /\ Len(threads[j].chat_history) = MaxHist
        /\ threads[j].chat_history[MaxHist] # <<"user", threads[j].prompt>>

\* ---------------------------------------------------- claims on the decoder
Last(seq) == seq[Len(seq)]
IsTerminalFrame(f) ==
    \/ f.k = "done"
    \/ f.k = "obj" /\ f.obj.choices # <<>> /\ IsSome(f.obj.choices[1].finish_reason)

\* choices[0].delta.content of the frames, in arrival order, up to and with
\* the first terminal signal
RECURSIVE ContentsToTerminal(_)
ContentsToTerminal(fs) ==
    IF fs = <<>> THEN <<>>
    ELSE LET f == Head(fs)
             c == IF f.k = "obj" /\ f.obj.choices # <<>> /\ IsSome(f.obj.choices[1].content)
                  THEN <<Unwrap(f.obj.choices[1].content)>> ELSE <<>>
         IN IF IsTerminalFrame(f) THEN c ELSE c \o ContentsToTerminal(Tail(fs))

\* a well-formed compatible-family stream: "data: " lines holding a response
\* object and blank lines, a terminal signal, and after it nothing but
\* [DONE] and blank lines
WellFormedLM(fs) ==
    /\ \A i \in 1..Len(fs) : fs[i].k # "bad"
    /\ \E i \in 1..Len(fs) :
          /\ IsTerminalFrame(fs[i])
          /\ \A k \in 1..(i - 1) : ~IsTerminalFrame(fs[k])
          /\ \A k \in (i + 1)..Len(fs) : fs[k].k \in {"done", "blank"}

\* C5: for a well-formed compatible-family stream, however its bytes are cut
\* into chunks, the deltas pushed concatenate to the contents up to the
\* terminal signal and the decode ends with success.
C5_DeltasAreContents ==
    \A j \in Jobs :
        (/\ Ready(j)
         /\ threads[j].et = LMStudio
         /\ WellFormedLM(threads[j].frames))
        => /\ Unwrap(threads[j].result).ok
           /\ Concat(threads[j].sent) = Concat(ContentsToTerminal(threads[j].frames))

\* what a native-family decoder owes for a sequence of objects: the contents
\* up to and with the first done object, the think tokens removed and
\* whitespace holding a newline collapsed to "\n"
NativeDelta(c) ==
    IF c \in {THINK, ETHINK} THEN <<>>
    ELSE IF (\A i \in 1..Len(c) : c[i] \in Whitespace) /\ (\E i \in 1..Len(c) : c[i] = "\n")
    THEN << <<"\n">> >>
    ELSE <<c>>
RECURSIVE NativeDeltas(_)
NativeDeltas(fs) ==
    IF fs = <<>> THEN <<>>
    ELSE LET o == Head(fs).obj
             d == IF IsSome(o.content) THEN NativeDelta(Unwrap(o.content)) ELSE <<>>
         IN IF o.done THEN d ELSE d \o NativeDeltas(Tail(fs))

\* C6: a native-family object that arrives split across chunks is decoded
\* once complete, as if it had arrived in one chunk (no chunk holds more
\* than one object here).
C6_SplitObjectDecoded ==
    \A j \in Jobs :
        (/\ Ready(j)
         /\ threads[j].et = Ollama
         /\ Boundaries(Ollama, threads[j].frames) \subseteq threads[j].cuts)
        => /\ Unwrap(threads[j].result).ok
           /\ threads[j].sent = NativeDeltas(threads[j].frames)

IsPrefix(a, b) == Len(a) <= Len(b) /\ a = SubSeq(b, 1, Len(a))
WholeObjects(j) ==
    /\ threads[j].et = Ollama
    /\ threads[j].pc \in {"read", "done"}
    /\ threads[j].cuts = Boundaries(Ollama, threads[j].frames)

\* C7: for a native-family stream of whole objects (one per chunk) the deltas
\* pushed are the contents up to and with the first done object, each think
\* token removed, each all-whitespace value with a newline replaced by "\n",
\* every other value unchanged.
C7_NativeDeltasFiltered ==
    \A j \in Jobs :
        WholeObjects(j) =>
            /\ IsPrefix(threads[j].sent, NativeDeltas(threads[j].frames))
            /\ Ready(j) => threads[j].sent = NativeDeltas(threads[j].frames)

\* a whitespace value and a value holding a think token inside have been
\* decoded: "\n" and the unchanged value were pushed
C7_Witness ==
    \E j \in Jobs :
        /\ WholeObjects(j) /\ Ready(j)
        /\ threads[j].frames =
              <<ObjFrame(OllamaObj(Some(<<" ", "\n", "\n">>), FALSE)),
                ObjFrame(OllamaObj(Some(<<"a", "<think>">>), TRUE))>>
        /\ threads[j].sent = << <<"\n">>, <<"a", "<think>">> >>

\* what the compatible-family decoder read on a line it has processed
IsDoneLine(line) == line = <<DATA, DONEP>>
LineChoice(line) ==
    IF StartsWithData(line) /\ IsSome(ParseChatResponse(Tail(line)))
          /\ Unwrap(ParseChatResponse(Tail(line))).choices # <<>>
    THEN Some(Unwrap(ParseChatResponse(Tail(line))).choices[1])
    ELSE None
IsFinishLine(line) ==
    IsSome(LineChoice(line)) /\ IsSome(Unwrap(LineChoice(line)).finish_reason)
RECURSIVE LineContents(_)
LineContents(ls) ==
    IF ls = <<>> THEN <<>>
    ELSE (IF IsSome(LineChoice(Head(ls))) /\ IsSome(Unwrap(LineChoice(Head(ls))).content)
          THEN <<Unwrap(Unwrap(LineChoice(Head(ls))).content)>> ELSE <<>>)
             \o LineContents(Tail(ls))
DoneDecoded(j) ==
    /\ threads[j].et = LMStudio
    /\ \E i \in 1..Len(threads[j].seen) : IsDoneLine(threads[j].seen[i])

\* C8: once a "data: [DONE]" line has been decoded, chat_stream has finished
\* with success, and no delta is pushed from then on.
C8_DoneIsTerminal ==
    [][\A j \in Jobs :
          /\ DoneDecoded(j)' => (Ready(j) /\ Unwrap(threads[j].result).ok)'
          /\ DoneDecoded(j) => threads'[j].sent = threads[j].sent]_vars

\* C9: a decoded frame whose finish_reason is non-null is the last line the
\* decoder processes: its content, if any, is the last delta pushed, the
\* deltas pushed are the contents of the lines decoded up to it, and
\* chat_stream has returned Ok.
C9_FinishReasonIsTerminal ==
    \A j \in Jobs :
        threads[j].et = LMStudio =>
            \A i \in 1..Len(threads[j].seen) :
                IsFinishLine(threads[j].seen[i]) =>
                    /\ i = Len(threads[j].seen)
                    /\ Ready(j) /\ Unwrap(threads[j].result).ok
                    /\ threads[j].sent = LineContents(threads[j].seen)
                    /\ IsSome(Unwrap(LineChoice(threads[j].seen[i])).content) =>
                          /\ threads[j].sent # <<>>
                          /\ Last(threads[j].sent) =
                                Unwrap(Unwrap(LineChoice(threads[j].seen[i])).content)

\* a frame with content and finish_reason was decoded, a content frame
\* follows it on the wire, and the one delta pushed is the first frame's
C9_Witness ==
    \E j \in Jobs :
        /\ Ready(j) /\ Unwrap(threads[j].result).ok
        /\ threads[j].frames =
              <<ObjFrame(LMObj(<<Choice(Some(<<"Hi">>), Some(<<"stop">>))>>)),
                ObjFrame(LMObj(<<Choice(Some(<<"Hi">>), None)>>))>>
        /\ IsFinishLine(Last(threads[j].seen))
        /\ threads[j].sent = << <<"Hi">> >>

\* what the native-family decoder read in a chunk it has processed
ChunkObject(text) == ParseJson(text)
IsDoneChunk(text) == IsSome(ChunkObject(text)) /\ Unwrap(ChunkObject(text)).done
RECURSIVE ChunkDeltas(_)
ChunkDeltas(cs) ==
    IF cs = <<>> THEN <<>>
    ELSE (IF IsSome(ChunkObject(Head(cs))) /\ IsSome(Unwrap(ChunkObject(Head(cs))).content)
          THEN NativeDelta(Unwrap(Unwrap(ChunkObject(Head(cs))).content)) ELSE <<>>)
             \o ChunkDeltas(Tail(cs))
Example2Decoded(j) ==
    /\ threads[j].et = Ollama
    /\ threads[j].frames = Example2
    /\ threads[j].cuts = Boundaries(Ollama, Example2)
    /\ Ready(j)

\* C10: a decoded object with done == true is the last chunk the decoder
\* processes: the deltas pushed are the filtered contents of the chunks
\* decoded up to and with it, and chat_stream has returned Ok; the stream
\* <think>, reasoning, </think>, answer(done) yields ["reasoning", "answer"].
C10_DoneObjectIsTerminal ==
    \A j \in Jobs :
        /\ threads[j].et = Ollama =>
              \A i \in 1..Len(threads[j].seen) :
                  IsDoneChunk(threads[j].seen[i]) =>
                      /\ i = Len(threads[j].seen)
                      /\ Ready(j) /\ Unwrap(threads[j].result).ok
                      /\ threads[j].sent = ChunkDeltas(threads[j].seen)
        /\ Example2Decoded(j) =>
              /\ Unwrap(threads[j].result).ok
              /\ threads[j].sent = << <<"reasoning">>, <<"answer">> >>

\* the four-object stream of the example has been decoded
C10_Witness ==
    \E j \in Jobs :
        /\ Example2Decoded(j)
        /\ Len(threads[j].seen) = 4
        /\ IsDoneChunk(Last(threads[j].seen))
        /\ threads[j].sent = << <<"reasoning">>, <<"answer">> >>

\* --------------------------------------------- claims on errors and ticks
\* a "data: " line whose payload is not a ChatResponse
IsBadLine(line) ==
    /\ StartsWithData(line) /\ ~IsDoneLine(line)
    /\ ~IsSome(ParseChatResponse(Tail(line)))
HasBadFrame(j) ==
    /\ threads[j].et = LMStudio
    /\ threads[j].cuts \subseteq Boundaries(LMStudio, threads[j].frames)
    /\ \E i \in 1..Len(threads[j].frames) : threads[j].frames[i].k = "bad"
    /\ \A i \in 1..Len(threads[j].frames) : threads[j].frames[i].k # "done"

\* C11: in a compatible-family stream (whole lines per chunk, no [DONE]) that
\* holds a "data: " line with an unparsable payload, that line pushes no
\* delta, the deltas pushed are always the contents of the well-formed frames
\* in order, the decode goes on to the first finish_reason or the end of the
\* stream, and the result is Ok.
C11_ParseErrorIsSkipped ==
    \A j \in Jobs :
        HasBadFrame(j) =>
            /\ threads[j].sent = LineContents(threads[j].seen)
            /\ IsPrefix(threads[j].sent, ContentsToTerminal(threads[j].frames))
            /\ Ready(j) => /\ Unwrap(threads[j].result).ok
                           /\ threads[j].sent = ContentsToTerminal(threads[j].frames)

\* an unparsable line was decoded, and the frame after it was pushed
C11_Witness ==
    \E j \in Jobs :
        /\ HasBadFrame(j) /\ Ready(j) /\ Unwrap(threads[j].result).ok
        /\ threads[j].frames =
              <<BadFrame, ObjFrame(LMObj(<<Choice(Some(<<"Hi">>), None)>>))>>
        /\ IsBadLine(threads[j].seen[1])
        /\ threads[j].sent = << <<"Hi">> >>

\* a tick on which the Promise of the pending job is ready
Retires == pending_response # 0 /\ Ready(pending_response)
\* current_response when that tick looks at the Promise: the delta its
\* try_recv took, if there was one, is already appended
Drained ==
    IF response_receiver # 0 /\ chan[response_receiver].queue # <<>>
    THEN current_response \o Head(chan[response_receiver].queue)
    ELSE current_response

\* C12: the tick that retires a job appends one assistant turn holding
\* current_response when that is non-empty, whether the result is Ok or Err;
\* one error turn when it is empty and the result is Err; nothing when it is
\* empty and the result is Ok.
C12_RetireCommitsBuffer ==
    [][(last_op' = "process_response_chunks" /\ Retires) =>
           LET cur == Drained
               res == Unwrap(threads[pending_response].result)
           IN /\ cur # Empty =>
                     chat_history' = Append(chat_history, <<"assistant", cur>>)
              /\ (cur = Empty /\ ~res.ok) =>
                     /\ Len(chat_history') = Len(chat_history) + 1
                     /\ SubSeq(chat_history', 1, Len(chat_history)) = chat_history
                     /\ Last(chat_history')[1] = "error"
              /\ (cur = Empty /\ res.ok) => chat_history' = chat_history]_vars

\* two jobs were retired: the first left an assistant turn, the second an
\* error turn
C12_Witness ==
    /\ last_op = "process_response_chunks" /\ pending_response = 0
    /\ Len(chat_history) = 4
    /\ chat_history[2][1] = "assistant"
    /\ chat_history[4][1] = "error"

\* C13: while a job is pending, current_response is a prefix of the
\* concatenation of the deltas its producer has pushed so far, in the order
\* pushed; with the deltas still queued it is that concatenation exactly.
C13_ResponseIsPrefixOfPushed ==
    \A j \in Jobs :
        pending_response = j =>
            /\ IsPrefix(current_response, Concat(threads[j].sent))
            /\ current_response \o Concat(chan[j].queue) = Concat(threads[j].sent)

\* two deltas were pushed and both have been appended, in order
C13_Witness ==
    \E j \in Jobs :
        /\ pending_response = j
        /\ threads[j].sent = << <<"Hi">>, <<"!">> >>
        /\ current_response = <<"Hi", "!">>

\* what the next decode iteration of job j decodes its input to
NextDecoded(j) ==
    IF threads[j].pc = "lines" THEN LMLine(Head(threads[j].lines))
    ELSE IF threads[j].pc = "read" /\ threads[j].et = Ollama /\ threads[j].chunks # <<>>
    THEN OllamaChunk(Head(threads[j].chunks))
    ELSE Continue
Cancelled(j) == Alive(j) /\ ~chan[j].rx_alive

\* C14: once the Receiver is dropped the running producer pushes nothing
\* more; its next decode iteration that has a delta to push ends chat_stream
\* with Ok(()), and a chat_stream that has returned reads nothing further.
C14_DroppedReceiverStopsProducer ==
    [][\A j \in Jobs :
          /\ Cancelled(j) =>
                /\ threads'[j].sent = threads[j].sent
                /\ (IsSome(NextDecoded(j).emit) /\ threads'[j] # threads[j]) =>
                      /\ threads'[j].pc = "done"
                      /\ Unwrap(threads'[j].result).ok
          /\ Ready(j) => threads'[j] = threads[j]]_vars

\* the Receiver was dropped after the first of two deltas: the push of the
\* second failed and chat_stream returned Ok
C14_Witness ==
    \E j \in Jobs :
        /\ ~chan[j].rx_alive /\ Ready(j) /\ Unwrap(threads[j].result).ok
        /\ threads[j].frames =
              <<ObjFrame(LMObj(<<Choice(Some(<<"Hi">>), None)>>)),
                ObjFrame(LMObj(<<Choice(Some(<<"!">>), None)>>))>>
        /\ Len(threads[j].seen) = 2
        /\ threads[j].sent = << <<"Hi">> >>

\* the producer of job j is at a tx.send that cannot complete: it has a delta
\* to push, the Receiver is held and the channel is full
Blocked(j) ==
    /\ Alive(j)
    /\ IsSome(NextDecoded(j).emit)
    /\ chan[j].rx_alive
    /\ Len(chan[j].queue) >= ChannelCapacity

\* C15: the producer's push of a delta never blocks the decode loop, however
\* far the consumer lags behind.
C15_PushNeverBlocks == \A j \in Jobs : ~Blocked(j)

\* C16: a tick takes at most one delta, the head of the queue of the held
\* Receiver, and appends it to current_response; with nothing queued or no
\* Receiver it takes nothing and goes on; the Promise is looked at after
\* that, so a tick that retires the job commits the delta it has just taken.
C16_TickTakesOneThenChecks ==
    [][last_op' = "process_response_chunks" =>
           LET r == response_receiver
               has == r # 0 /\ chan[r].queue # <<>>
           IN /\ \A j \in Jobs :
                     (j # r \/ ~has) =>
                         \/ chan'[j].queue = chan[j].queue
                         \/ Retires /\ j = r /\ chan'[j] = NoChannel
              /\ has =>
                     /\ \/ chan'[r].queue = Tail(chan[r].queue)
                        \/ Retires /\ chan'[r] = NoChannel
                     /\ IF Retires
                        THEN Last(chat_history') =
                                 <<"assistant", current_response \o Head(chan[r].queue)>>
                        ELSE current_response' =
                                 current_response \o Head(chan[r].queue)
              /\ (~has /\ ~Retires) =>
                     /\ current_response' = current_response
                     /\ chat_history' = chat_history]_vars

\* a tick has retired a job whose two deltas were both taken
C16_Witness ==
    /\ last_op = "process_response_chunks" /\ pending_response = 0
    /\ chat_history # <<>>
    /\ Last(chat_history) = <<"assistant", <<"Hi", "!">>>>

\* chat_stream of this thread returned the error of a non-2xx status
StatusFailed(th) ==
    /\ th.pc = "done"
    /\ Unwrap(th.result) = Err(<<"Request failed with status">>)

\* C17: a chat_stream that returned the error of a non-2xx status has pushed
\* no delta, and the tick that retires its job appends one error turn to the
\* history and nothing else.
C17_StatusErrorBecomesErrorTurn ==
    [][\A j \in Jobs :
          /\ StatusFailed(threads'[j]) =>
                threads'[j].sent = <<>> /\ chan'[j].queue = <<>>
          /\ (/\ last_op' = "process_response_chunks"
              /\ pending_response = j
              /\ StatusFailed(threads[j])) =>
                /\ Len(chat_history') = Len(chat_history) + 1
                /\ SubSeq(chat_history', 1, Len(chat_history)) = chat_history
                /\ Last(chat_history')[1] = "error"]_vars

\* a job whose POST was answered with a non-2xx status has been retired
C17_Witness ==
    /\ last_op = "process_response_chunks" /\ pending_response = 0
    /\ chat_history # <<>>
    /\ Last(chat_history) = <<"error", <<"Error: ", "Request failed with status">>>>

\* C18: a step of clear_chat empties chat_history; every other step leaves
\* it unchanged or appends one turn at its end, the turns already there
\* staying as they are.
C18_HistoryAppendOnly ==
    [][IF last_op' = "clear_chat"
       THEN chat_history' = <<>>
       ELSE \/ chat_history' = chat_history
            \/ /\ Len(chat_history') = Len(chat_history) + 1
               /\ SubSeq(chat_history', 1, Len(chat_history)) = chat_history]_vars

\* clear_chat has reset a session in which two jobs had been sent
C18_Witness ==
    /\ last_op = "clear_chat"
    /\ chat_history = <<>>
    /\ njobs = 2

SdLogged(what) == \E i \in 1..Len(sd_thread.log) : sd_thread.log[i] = what
SdBefore(a, b) ==
    \A i \in 1..Len(sd_thread.log) :
        sd_thread.log[i] = b => \E k \in 1..(i - 1) : sd_thread.log[k] = a

\* C20: a submission whose model-change call failed never issues the
\* generation POST, its thread returns an error and the tick that retires it
\* leaves the job failed (error message set, not generating); a submission
\* that changes the model issues the generation POST only after the
\* model-change call has completed with success.
C20_ModelChangeGatesGeneration ==
    /\ SdLogged("options failed") =>
          /\ ~SdLogged("POST txt2img")
          /\ sd_thread.pc \in {"done", "retired"}
          /\ ~Unwrap(sd_thread.result).ok
          /\ sd_thread.pc = "retired" =>
                /\ IsSome(sd_error_message)
                /\ ~sd_generating
                /\ sd_pending_generation = None
    /\ sd_thread.model_name # "" =>
          /\ SdBefore("POST options", "options ok")
          /\ SdBefore("options ok", "POST txt2img")

\* a submission whose model change failed was retired, after one whose model
\* change and generation succeeded
C20_Witness ==
    /\ sd_njobs = 2
    /\ IsSome(sd_image_bytes)
    /\ sd_thread.pc = "retired"
    /\ sd_thread.log = <<"POST options", "options failed">>
    /\ IsSome(sd_error_message)

\* the image job is Generating: the txt2img POST is sent and not yet answered
SdIsGenerating == sd_thread.pc = "await_txt2img"
SdPollerRunning == sd_poller.pc \in {"polling", "sleeping"}

\* C21: while an image job is Generating (generation POST sent, its response
\* not yet received) the progress poller of that job is running.
C21_PollerRunsWhileGenerating ==
    SdIsGenerating => SdPollerRunning

\* C22: a model-change call is issued for a submission only if the target
\* model differs from the checkpoint the image service has loaded when the
\* call is sent; a submission whose target is already current posts the
\* generation request without a model-change call.
C22_ModelChangeOnlyIfDifferent ==
    IsSome(sd_thread.current_at_post) =>
        Unwrap(sd_thread.current_at_post) # sd_thread.model_name

\* the value generate_image has to send for a hires.fix field the caller
\* handed over as `given`
FilledWith(given, default) == IF IsSome(given) THEN given ELSE Some(default)

\* C23: generate_image sends a hires.fix parameter the caller set unchanged
\* and fills an unset one: enable_hr true, hr_scale 2.0, hr_second_pass_steps
\* floor(steps / 2), denoising_strength 0.55.
C23_HiresFillsOnlyUnset ==
    IsSome(sd_thread.posted) =>
        LET request == Unwrap(sd_thread.request)
            posted == Unwrap(sd_thread.posted)
        IN /\ posted.enable_hr = FilledWith(request.enable_hr, TRUE)
           /\ posted.hr_scale = FilledWith(request.hr_scale, 20)
           /\ posted.hr_second_pass_steps =
                 FilledWith(request.hr_second_pass_steps, request.steps \div 2)
           /\ posted.denoising_strength = FilledWith(request.denoising_strength, 55)

\* what the claim lets a 2xx answer with the array `images` produce
FirstImageDecides(images, res) ==
    IF images = <<>> THEN ~res.ok
    ELSE LET d == Base64Decode(images[1])
         IN /\ res.ok = d.ok
            /\ d.ok => res.image = d.bytes

SdLastPoll(poll) == ~poll.ok \/ poll.progress >= 100

\* C25: a poll that failed or returned 100 or more is the last poll of its
\* progress task and leaves the task stopped, and the result the
\* "sd_generation" thread returns is the result of the model-change or
\* generation call alone, whatever the polls returned.
C25_PollerStopsAndIsSwallowed ==
    /\ \A i \in 1..Len(sd_poller.polls) :
          SdLastPoll(sd_poller.polls[i]) =>
              i = Len(sd_poller.polls) /\ sd_poller.pc = "stopped"
    /\ sd_poller.pc = "stopped" =>
          sd_poller.polls # <<>> /\ SdLastPoll(Last(sd_poller.polls))
    /\ IsSome(sd_thread.result) /\ SdLogged("POST txt2img") =>
          Unwrap(sd_thread.result) =
             IF IsSome(sd_thread.response)
             THEN GenerateImageResult(Unwrap(sd_thread.response))
             ELSE SdErr(<<"Failed to connect to Stable Diffusion API">>)

\* the job was retired with its image although its progress task ended on a
\* failed poll after one answered poll
C25_Witness ==
    /\ sd_thread.pc = "retired"
    /\ IsSome(sd_image_bytes) /\ sd_error_message = None
    /\ sd_poller.pc = "stopped"
    /\ Len(sd_poller.polls) = 2
    /\ sd_poller.polls[1] = [ok |-> TRUE, progress |-> 50]
    /\ ~sd_poller.polls[2].ok

\* ---------------------------------------------------- claims on endpoints
\* the prefix of an endpoint that ends with the chat-completions suffix
EndpointPrefix(endpoint) ==
    SubSeq(endpoint, 1, Len(endpoint) - Len(CHAT_COMPLETIONS))
HasChatSuffix(endpoint) ==
    /\ Len(endpoint) >= Len(CHAT_COMPLETIONS)
    /\ SubSeq(endpoint, Len(endpoint) - Len(CHAT_COMPLETIONS) + 1, Len(endpoint))
          = CHAT_COMPLETIONS

\* C26: for the native family and every prefix P, models_endpoint(P +
\* "v1/chat/completions") is P followed by "api/tags" and chat_endpoint of it
\* is P followed by "api/chat", the prefix and its separator preserved; the
\* empty endpoint gives "api/tags" and "api/chat".
C26_NativePrefixPreserved ==
    client.endpoint_type = Ollama =>
        /\ HasChatSuffix(client.endpoint) =>
              /\ IsSome(client.models_path) =>
                    Unwrap(client.models_path)
                       = EndpointPrefix(client.endpoint) \o <<"api/tags">>
              /\ IsSome(client.chat_path) =>
                    Unwrap(client.chat_path)
                       = EndpointPrefix(client.endpoint) \o <<"api/chat">>
        /\ client.endpoint = <<>> =>
              /\ IsSome(client.models_path) =>
                    Unwrap(client.models_path) = <<"api/tags">>
              /\ IsSome(client.chat_path) =>
                    Unwrap(client.chat_path) = <<"api/chat">>

\* ------------------------------------------ claims on the two chat_streams
\* the fragments the inputs `seen` decode to, one per input that carries text
RECURSIVE Fragments(_, _)
Fragments(et, seen) ==
    IF seen = <<>> THEN <<>>
    ELSE LET d == IF et = LMStudio THEN LMLine(Head(seen)) ELSE OllamaChunk(Head(seen))
         IN (IF IsSome(d.emit) THEN <<Unwrap(d.emit)>> ELSE <<>>)
            \o Fragments(et, Tail(seen))

\* C27: every value pushed onto the delta channel is the fragment decoded
\* from one input of the decoder, never the response accumulated so far: with
\* the Receiver held, the values pushed are the fragments of the inputs read.
C27_PushedValuesAreFragments ==
    \A j \in Jobs :
        Alive(j) /\ chan[j].rx_alive =>
            threads[j].sent = Fragments(threads[j].et, threads[j].seen)

\* ------------------------------------------- more claims on the image tab
\* how often the piece `x` occurs in the text `s`
Occurrences(s, x) == Cardinality({i \in 1..Len(s) : s[i] = x})

\* C28: generate_sd_image submits the stored prompt followed by exactly one
\* <lora:name:weight> tag (the weight with one decimal) when a LoRA is
\* selected and the stored prompt alone when none is, and leaves sd_prompt
\* as it was, so that a later submission carries no tag of an earlier one.
C28_PromptGetsOneTag ==
    [][last_op' = "generate_sd_image" =>
          LET submitted == Unwrap(sd_thread'.request).prompt
          IN /\ sd_prompt' = sd_prompt
             /\ submitted[1] = sd_prompt
             /\ IF IsSome(sd_selected_lora)
                THEN /\ Occurrences(submitted, "<lora:") = 1
                     /\ Tail(submitted) =
                           <<" ", "<lora:", Unwrap(sd_selected_lora), ":">>
                           \o FormatOneDecimal(sd_lora_weight) \o <<">">>
                ELSE submitted = <<sd_prompt>>]_vars

\* the second submission with the LoRA "detail" at weight 0.75 selected
C28_Witness ==
    /\ sd_njobs = 2
    /\ sd_prompt = "cat"
    /\ sd_thread.pc = "start"
    /\ sd_selected_lora = Some("detail") /\ sd_lora_weight = 75
    /\ Unwrap(sd_thread.request).prompt =
          <<"cat", " ", "<lora:", "detail", ":", "0", ".", "8", ">">>

\* the "sd_generation" thread of a submission is spawned and not yet retired
SdInFlight == sd_thread.pc \notin {"idle", "retired"}

\* C29: generate_sd_image is invoked only while sd_generating is false and
\* no submission is in flight, so at most one image job is in flight, and at
\* every tick boundary of the running application sd_generating is true
\* exactly when sd_pending_generation is set.
C29_OneImageJobInFlight ==
    [][/\ last_op' = "generate_sd_image" => ~sd_generating /\ ~SdInFlight
       /\ ~ui_panicked => (sd_generating <=> IsSome(sd_pending_generation))
       /\ ~ui_panicked' => (sd_generating' <=> IsSome(sd_pending_generation'))
       /\ ~ui_panicked' /\ SdInFlight' => sd_generating']_vars

\* a second submission waits for its generation response after the first
\* one was retired with an image
C29_Witness ==
    /\ sd_njobs = 2
    /\ sd_generating /\ IsSome(sd_pending_generation)
    /\ sd_thread.pc = "await_txt2img"
    /\ IsSome(sd_image_bytes)
    /\ ~ui_panicked

\* ------------------------------------------------ more claims on the chat
\* C30: when a chat job whose producer returned Ok is retired, the assistant
\* turn committed to the history is the concatenation of all the deltas the
\* producer pushed for that job, also when deltas are still queued at the
\* tick that finds the result ready.
C30_RetireCommitsAllDeltas ==
    [][/\ last_op' = "process_response_chunks"
       /\ pending_response # 0 /\ pending_response' = 0
       /\ Unwrap(threads[pending_response].result).ok
       /\ threads[pending_response].sent # <<>>
       => /\ Len(chat_history') = Len(chat_history) + 1
          /\ Last(chat_history') =
                <<"assistant", Concat(threads[pending_response].sent)>>]_vars

\* ------------------------------------------------------------ claims C31-C38
\* one step of the producer thread of job j (chat_stream, llmclient.rs 133-273)
ThreadStep(j) ==
    \/ PostRequest(j)
    \/ SendFails(j)
    \/ ResponseError(j)
    \/ ResponseOk(j)
    \/ ReadChunk(j)
    \/ ProcessLine(j)
    \/ ReadError(j)
    \/ StreamEnd(j)

\* a session of the chat tab, configured for either family, in which the
\* user types, sends up to MaxLiveJobs messages and may press New Chat
LiveInit ==
    /\ input = Empty
    /\ chat_history = <<>>
    /\ pending_response = 0
    /\ response_receiver = 0
    /\ current_response = Empty
    /\ endpoint_type \in EndpointType
    /\ client = [endpoint_type |-> endpoint_type]
    /\ threads = [j \in Jobs |-> IdleThread]
    /\ chan = [j \in Jobs |-> NoChannel]
    /\ njobs = 0
    /\ last_op = "other"
    /\ SdInit
    /\ ModelsInit

LiveNext ==
    \/ \E s \in TypedPrompts \cup {Empty} : EditInput(s)
    \/ njobs < MaxLiveJobs /\ SendMessage
    \/ ClearChat
    \/ ProcessResponseChunks
    \/ \E j \in Jobs : ThreadStep(j)

\* the session with its scheduling: every frame calls process_response_chunks,
\* every producer is a thread of its own that the operating system runs, and
\* the transport answers every request and every read (reqwest's timeouts)
LiveSpec ==
    /\ LiveInit
    /\ [][LiveNext]_vars
    /\ WF_vars(ProcessResponseChunks)
    /\ \A j \in Jobs : WF_vars(ThreadStep(j))

\* send_message takes the input: its guard (chatapp.rs 146) lets it through
SendAccepted ==
    ENABLED (SendMessage /\ pending_response' # 0)

\* C31: a pending chat job eventually retires (pending_response becomes None),
\* and in the state reached send_message with a non-empty input is accepted
C31_JobEventuallyRetires ==
    (pending_response # 0) ~>
        (/\ pending_response = 0
         /\ input # Empty /\ njobs < MaxJobs => SendAccepted)

C31_Witness ==
    /\ last_op = "process_response_chunks"
    /\ pending_response = 0
    /\ njobs = 1
    /\ chat_history # <<>>
    /\ chat_history[Len(chat_history)][1] = "assistant"

\* ---- main.rs: New Chat while its chat_stream is reading
\* the New Chat button of main.rs (675-683) makes the assignments of clear_chat
MainNewChat == ClearChat

MainCancelNext ==
    \/ MainNext
    \/ MainNewChat

MainCancelSpec == CancelInit /\ [][MainCancelNext]_vars

\* C32: in main.rs, a producer whose Receiver has been dropped stops at its
\* next send attempt: the iteration that pushes a fragment onto `buffer` and
\* calls tx.send on the dropped channel is the thread's last
C32_MainProducerStopsOnFailedSend ==
    [][\A j \in Jobs :
          /\ threads[j].pc \in {"read", "lines"}
          /\ ~chan[j].rx_alive
          /\ threads'[j].buffer # threads[j].buffer
          => threads'[j].pc \in {"done", "gone"}]_vars

\* ---- the two chat_stream implementations on one answer: job 1 is read by
\* llmclient.rs's chat_stream, then the same chunks by main.rs's as job 2
BothNext ==
    \/ ReadChunk(1)
    \/ ProcessLine(1)
    \/ StreamEnd(1)
    \/ Rerun
    \/ MainReadChunk(2)
    \/ MainProcessLine(2)
    \/ MainStreamEnd(2)

BothSpec == DecodeInit /\ [][BothNext]_vars

\* a frame that carries a terminal signal of its family
TerminalFrame(et, f) ==
    IF et = LMStudio
    THEN \/ f.k = "done"
         \/ /\ f.k = "obj"
            /\ \E i \in 1..Len(f.obj.choices) : IsSome(f.obj.choices[i].finish_reason)
    ELSE f.k = "obj" /\ f.obj.done

\* the wire of thread th closes without any terminal signal
NoTerminalSignal(th) ==
    \A i \in 1..Len(th.frames) : ~TerminalFrame(th.et, th.frames[i])

BothReturned ==
    /\ Ready(1) /\ Ready(2)
    /\ NoTerminalSignal(threads[1])

\* C33 as stated: on a wire without a terminal signal the two
\* implementations return the same outcome, both Ok or both Err
C33_SameOutcomeWithoutTerminal ==
    BothReturned =>
        Unwrap(threads[1].result).ok = Unwrap(threads[2].result).ok

\* C33: on a wire that closes without a terminal signal llmclient.rs's
\* chat_stream returns Ok(()) and main.rs's chat_stream returns the error
\* "Stream ended without completion", whether or not content was decoded
C33_OutcomesWithoutTerminal ==
    /\ Ready(1) /\ NoTerminalSignal(threads[1]) => Unwrap(threads[1].result) = Ok
    /\ Ready(2) /\ NoTerminalSignal(threads[2]) =>
          Unwrap(threads[2].result) = Err(<<"Stream ended without completion">>)

C33_Witness ==
    /\ BothReturned
    /\ threads[1].sent # <<>>
    /\ threads[2].sent # <<>>
    /\ Unwrap(threads[1].result).ok
    /\ ~Unwrap(threads[2].result).ok

\* ---- a session of the chat tab with one endpoint family: typing, sending,
\* New Chat, the ticks and the producers
SessionNext ==
    \/ \E s \in TypedPrompts \cup {Empty} : EditInput(s)
    \/ SendMessage
    \/ ClearChat
    \/ ProcessResponseChunks
    \/ \E j \in Jobs : ThreadStep(j)

SessionSpec == LiveInit /\ [][SessionNext]_vars

\* C34: what a job pushed reaches only its own buffer: a job that is not the
\* attached one has no Receiver and no queued delta and nobody holds its
\* result, and current_response with the deltas still queued is exactly what
\* the attached job has pushed, and is empty when no job is attached
C34_ClearedJobReachesNothing ==
    /\ \A j \in Jobs :
          /\ j # response_receiver => ~chan[j].rx_alive /\ chan[j].queue = <<>>
          /\ j # pending_response => threads[j].result = None
    /\ response_receiver # 0 =>
          /\ response_receiver = pending_response
          /\ current_response \o Concat(chan[response_receiver].queue)
                = Concat(threads[response_receiver].sent)
    /\ response_receiver = 0 => current_response = Empty

C34_Witness ==
    /\ njobs = 2
    /\ pending_response = 2
    /\ threads[1].pc \in {"read", "lines"}
    /\ threads[1].sent # <<>>
    /\ threads[1].chunks # <<>>
    /\ current_response # Empty

\* C35: between two handlers response_receiver is set exactly when
\* pending_response is set, and current_response is empty whenever no chat job
\* is pending
C35_ReceiverIffPending ==
    /\ response_receiver # 0 <=> pending_response # 0
    /\ pending_response = 0 => current_response = Empty

C35_Witness ==
    /\ last_op = "process_response_chunks"
    /\ pending_response = 0
    /\ response_receiver = 0
    /\ njobs = 2
    /\ Len(chat_history) = 4
    /\ chat_history[4][1] = "assistant"

\* ---- the settings window on its own: the model list and its requests
ModelsNext ==
    \/ \E e \in EndpointType : UpdateEndpointType(e)
    \/ RefreshModels
    \/ TestConnection
    \/ \E r \in 1..MaxRefresh, models \in ModelLists : ListModelsOk(r, models)
    \/ \E r \in 1..MaxRefresh : ListModelsFails(r)
    \/ ShowSettingsWindow

ModelsSpec == Init /\ [][ModelsNext]_vars

\* every list_models task has answered and the frame has taken what was left
\* in the egui memory
ModelsSettled ==
    /\ \A r \in 1..Len(models_requests) : ~ListPending(r)
    /\ models_slot = None

\* C36: once every request has answered, the list in available_models is the
\* answer to the request issued last, if that request was answered with a
\* list: no answer to an earlier request is what stays installed
C36_LatestRequestWins ==
    /\ ModelsSettled
    /\ models_requests # <<>>
    /\ models_requests[Len(models_requests)].state = "ok"
    /\ installed_request # 0
    => installed_request = Len(models_requests)

\* ---- the image tab with process_sd_generation in its two steps, the
\* background threads running between them; no model is selected
RaceNext ==
    \/ sd_tick_pc = "idle" /\ \E p \in SdPrompts : EditSdPrompt(p)
    \/ sd_tick_pc = "idle" /\ ClickGenerate
    \/ SdPostGenerate
    \/ \E r \in SdServiceResponses : SdGenerateResponse(r)
    \/ SdGenerateFails
    \/ SdReturn
    \/ \E p \in SdProgressValues : SdPollOk(p)
    \/ SdPollFails
    \/ SdPollWake
    \/ SdTakeProgress
    \/ SdCheckGeneration

RaceSpec == Init /\ [][RaceNext]_vars

\* C37: a value that process_sd_generation takes from the progress slot and
\* assigns to sd_progress was published by the progress task of the
\* submission made last, never by the task of an earlier one
C37_ProgressIsOfCurrentJob ==
    [][/\ sd_tick_pc = "idle" /\ sd_tick_pc' = "check"
       /\ IsSome(sd_progress_slot)
       => Unwrap(sd_progress_slot).job = sd_njobs]_vars

\* C38: the client that sends the requests is of the family selected in the
\* application: client.endpoint_type equals endpoint_type at every state, so
\* that send_message and refresh_models after update_endpoint_type use the
\* URL rules, request body and decoder of the new family
C38_ClientFollowsSelection ==
    client.endpoint_type = endpoint_type

====
